---------------------------- MODULE Spec2Model ----------------------------
(***************************************************************************)
(* A model of the NWScript symbol extractor of NWScript-Npp:               *)
(* NWScriptParser::ParseFile, the two extraction paths                     *)
(* CreateNWScriptStructureA / CreateNWScriptStructureW and the PCRE2       *)
(* patterns they run (src/src/NWScriptParser.cpp).                         *)
(*                                                                         *)
(* Text is a sequence of character codes.  A narrow subject is the file's  *)
(* bytes; a wide subject is the file's bytes taken two at a time as        *)
(* little-endian 16-bit units.  A pattern is modelled by a matcher: an     *)
(* operator from a subject and a start position to the position after the  *)
(* match, or 0 when the pattern does not match there.  The patterns are    *)
(* built almost wholly from atomic groups and possessive repetitions, so   *)
(* each matcher follows the single path PCRE2 takes; the few places where  *)
(* PCRE2 may backtrack (the optional "const", the optional default value)  *)
(* are tried in PCRE2's order of preference.                               *)
(***************************************************************************)
EXTENDS Integers, Sequences, FiniteSets, TLC

-----------------------------------------------------------------------------
(* Characters *)

\* The printable ASCII characters of codes 32 (space) to 95 (underscore), and of
\* codes 97 (a) to 126 (tilde), each in code order.
Printable ==
    " !\"#$%&'()*+,-./0123456789:;<=>?@ABCDEFGHIJKLMNOPQRSTUVWXYZ[\\]^_"

PrintableLower == "abcdefghijklmnopqrstuvwxyz{|}~"

\* The code of each printable character.
OrdTable ==
    [ch \in {SubSeq(Printable, i, i) : i \in 1..Len(Printable)}
            \cup {SubSeq(PrintableLower, i, i) : i \in 1..Len(PrintableLower)} |->
        IF \E i \in 1..Len(Printable) : SubSeq(Printable, i, i) = ch
        THEN 31 + (CHOOSE i \in 1..Len(Printable) : SubSeq(Printable, i, i) = ch)
        ELSE 96 + (CHOOSE i \in 1..Len(PrintableLower) :
                       SubSeq(PrintableLower, i, i) = ch)]

Ord(ch) == OrdTable[ch]

\* A string literal of the source as the sequence of its character codes.
Codes(str) == [i \in 1..Len(str) |-> Ord(SubSeq(str, i, i))]

LF == 10

\* The character at position p of subject s; -1 past the end.
At(s, p) == IF p >= 1 /\ p <= Len(s) THEN s[p] ELSE -1

\* \d, \w and \s of PCRE2 without UCP: ASCII only, in either code-unit width.
IsDigit(ch) == ch \in 48..57
IsWord(ch) == ch \in 48..57 \/ ch \in 65..90 \/ ch \in 97..122 \/ ch = 95
IsSpace(ch) == ch \in {9, 10, 11, 12, 13, 32}

\* The literal lit at position p: the position after it, or 0.
Lit(s, p, lit) ==
    IF p >= 1 /\ p + Len(lit) - 1 <= Len(s) /\ SubSeq(s, p, p + Len(lit) - 1) = lit
    THEN p + Len(lit) ELSE 0

RECURSIVE WordEnd(_, _)
\* \w*+ from p: the position after the longest run of word characters.
WordEnd(s, p) == IF IsWord(At(s, p)) THEN WordEnd(s, p + 1) ELSE p

RECURSIVE SpaceEnd(_, _)
\* \s*+ from p.
SpaceEnd(s, p) == IF IsSpace(At(s, p)) THEN SpaceEnd(s, p + 1) ELSE p

RECURSIVE DigitEnd(_, _)
\* \d*+ from p.
DigitEnd(s, p) == IF IsDigit(At(s, p)) THEN DigitEnd(s, p + 1) ELSE p

RECURSIVE LineEnd(_, _)
\* .* from p: up to, not including, the next line feed.
LineEnd(s, p) == IF p > Len(s) \/ s[p] = LF THEN p ELSE LineEnd(s, p + 1)

\* ^ under PCRE2_MULTILINE: the start of the subject, or just after a line
\* feed that is not the subject's last character.
LineStart(s, p) == p = 1 \/ (p >= 2 /\ p <= Len(s) /\ s[p - 1] = LF)


\* An alternation a|b|d of matchers tried in PCRE2's order: the first end
\* position that is not 0, the last if there is none.
FirstOf(a, b, d) == IF a # 0 THEN a ELSE IF b # 0 THEN b ELSE d

\* Of two attempts with captures, the first unless it failed.
OrElse(m1, m2) == IF m1.end # 0 THEN m1 ELSE m2

-----------------------------------------------------------------------------
(* BASEREGEX: the subroutines of the (?(DEFINE)...) group *)

\* (?>\n|.*) from the position q after "//".
commentLineRest(s, q) ==
    IF q = 0 THEN 0
    ELSE IF At(s, q) = LF THEN q + 1
    ELSE LineEnd(s, q)

\* (?'commentLine'(?>\/\/(?>\n|.*)))
commentLine(s, p) == commentLineRest(s, Lit(s, p, Codes("//")))

RECURSIVE CommentClose(_, _)
\* (?>.|\n)*?\*\/ from p: the position after the first "*/" at or after p.
CommentClose(s, p) ==
    IF p < 1 \/ p + 1 > Len(s) THEN 0
    ELSE IF s[p] = Ord("*") /\ s[p + 1] = Ord("/") THEN p + 2
    ELSE CommentClose(s, p + 1)

\* (?'comment'(?>\/\*(?>.|\n)*?\*\/))
comment(s, p) == CommentClose(s, Lit(s, p, Codes("/*")))

\* (?>\g<comment>|\g<commentLine>)? from p
commentOrNot(s, p) == FirstOf(comment(s, p), commentLine(s, p), p)

RECURSIVE c(_, _)
RECURSIVE cAgain(_, _, _)
\* (?'c'(?>\s*+(?>\g<comment>|\g<commentLine>)?\s*+)*+): every run of white
\* space and comments from p; never fails.
c(s, p) == cAgain(s, p, SpaceEnd(s, commentOrNot(s, SpaceEnd(s, p))))

\* The repetition of c: once more from p3 when the last round, from p, moved.
cAgain(s, p, p3) == IF p3 = p THEN p ELSE c(s, p3)

RECURSIVE StringBody(_, _)
\* (?:\\.|[^"\\])* from p: escapes (not of a line feed) and any character
\* other than a quote or a backslash.
StringBody(s, p) ==
    IF At(s, p) = Ord("\\")
    THEN IF At(s, p + 1) # -1 /\ At(s, p + 1) # LF
         THEN StringBody(s, p + 2) ELSE p
    ELSE IF At(s, p) # -1 /\ At(s, p) # Ord("\"") THEN StringBody(s, p + 1)
    ELSE p

RECURSIVE BareEnd(_, _)
\* [\w\d.\-]*+ from p.
BareEnd(s, p) ==
    IF IsWord(At(s, p)) \/ At(s, p) = Ord(".") \/ At(s, p) = Ord("-")
    THEN BareEnd(s, p + 1) ELSE p

\* The closing quote at q.
Quoted(s, q) == IF At(s, q) = Ord("\"") THEN q + 1 ELSE 0

\* One or more: a repetition from p that ended at q.
OneOrMore(p, q) == IF q > p THEN q ELSE 0

\* (?<token>(?>(?!(\/\/|\/\*))("(?:\\.|[^"\\])*"|[\w\d.\-]+)))
token(s, p) ==
    IF Lit(s, p, Codes("//")) # 0 \/ Lit(s, p, Codes("/*")) # 0 THEN 0
    ELSE IF At(s, p) = Ord("\"") THEN Quoted(s, StringBody(s, p + 1))
    ELSE OneOrMore(p, BareEnd(s, p))

RECURSIVE Value(_, _)
RECURSIVE tokenVector(_, _)
RECURSIVE object(_, _)
RECURSIVE Elements(_, _, _)
RECURSIVE ElementsAfter(_, _, _)

\* \g<token>|\g<tokenVector>|\g<object>
Value(s, p) == FirstOf(token(s, p), tokenVector(s, p), object(s, p))

\* ,? from p
commaOrNot(s, p) == IF At(s, p) = Ord(",") THEN p + 1 ELSE p

\* (?>(?>\g<token>|\g<tokenVector>|\g<object>)\g<c>,?\g<c>)*?\g<c>CLOSE, from a
\* position p that follows \g<c>: the lazy repetition stops at the first
\* closing bracket that follows a whole number of elements.
Elements(s, p, close) ==
    IF At(s, p) = close THEN p + 1 ELSE ElementsAfter(s, Value(s, p), close)

\* The rest of the elements after a value that ended at v.
ElementsAfter(s, v, close) ==
    IF v = 0 THEN 0 ELSE Elements(s, c(s, commaOrNot(s, c(s, v))), close)

RECURSIVE FirstClose(_, _)
\* The position after the first "]" at or after p, 0 if there is none.
FirstClose(s, p) ==
    IF p < 1 \/ p > Len(s) THEN 0
    ELSE IF s[p] = Ord("]") THEN p + 1
    ELSE FirstClose(s, p + 1)

\* A vector that ends at the first "]" after its "[": no vector inside it.
tokenVectorFlat(s, p) ==
    IF At(s, p) = Ord("[") THEN FirstClose(s, p + 1) ELSE 0

\* (?<tokenVector>(?>\[\g<c>(?>...)*?\g<c>\]))
tokenVector(s, p) ==
    IF At(s, p) = Ord("[") THEN Elements(s, c(s, p + 1), Ord("]")) ELSE 0

\* (?<object>(?>\{\g<c>(?>...)*?\g<c>\}))
object(s, p) ==
    IF At(s, p) = Ord("{") THEN Elements(s, c(s, p + 1), Ord("}")) ELSE 0

\* A failed match.
NoMatch == [end |-> 0]

\* The positions a piece of a pattern ends at are collected in a sequence, each
\* piece matched from where the one before it ended (0 when that one failed,
\* and then every later one is 0 or fails its test).
Last(ps) == ps[Len(ps)]

\* \s*+ next.
ThenSpace(s, ps) == Append(ps, SpaceEnd(s, Last(ps)))
\* \d*+ next.
ThenDigits(s, ps) == Append(ps, DigitEnd(s, Last(ps)))
\* \w*+ next.
ThenWord(s, ps) == Append(ps, WordEnd(s, Last(ps)))
\* A literal next.
ThenLit(s, ps, lit) == Append(ps, Lit(s, Last(ps), lit))
\* \g<c> next.
ThenC(s, ps) == Append(ps, c(s, Last(ps)))
\* One character ("=", "(" or ")", tested by the caller) and \g<c> next.
ThenCharC(s, ps) == Append(ps, c(s, Last(ps) + 1))

\* \g<c>(\w*+)\g<c>(\w*+)\g<c>.\g<c> from p, the part the parameter and the
\* constant patterns share: <<p1, t, p2, n, p3, p4>> with the type in p1..t-1,
\* the name in p2..n-1, one character at p3 and what follows it at p4.
Declaration(s, p) ==
    ThenCharC(s, ThenC(s, ThenWord(s, ThenC(s, ThenWord(s, <<c(s, p)>>)))))

\* A parameter whose pieces end at ps (see Declaration) and whose default
\* value, if there is one, ends at v.
ParamCaptures(s, ps, v) ==
    IF ps[2] = ps[1] \/ ps[4] = ps[3] THEN NoMatch
    ELSE [end |-> IF v # 0 THEN v ELSE ps[5],
          type |-> SubSeq(s, ps[1], ps[2] - 1),
          name |-> SubSeq(s, ps[3], ps[4] - 1),
          defaultValue |-> IF v # 0 THEN SubSeq(s, ps[6], v - 1) ELSE <<>>]

\* (?>=\g<c>(default value)){0,1} after the pieces ps.  The default value is
\* optional: with "=" and no value after it the match ends before "=".
ParamDefault(s, ps) ==
    ParamCaptures(s, ps, IF At(s, ps[5]) = Ord("=") THEN Value(s, ps[6]) ELSE 0)

\* The part of a parameter after the optional "const", from p:
\* \g<c>(type \w+)\g<c>(name \w+)\g<c>(?>=\g<c>(default value)){0,1}
ParamTail(s, p) == ParamDefault(s, Declaration(s, p))

\* (?>const)? and the rest from p0.  PCRE2 takes "const" when it is there and
\* gives it back when the rest then fails.
ParamConst(s, p0) ==
    OrElse(IF Lit(s, p0, Codes("const")) # 0
           THEN ParamTail(s, Lit(s, p0, Codes("const"))) ELSE NoMatch,
           ParamTail(s, p0))

\* A parameter from p with its captures: \g<c>(?>const)?, then ParamTail.
ParamAt(s, p) == ParamConst(s, c(s, p))

\* The closing \g<c> of a parameter m.
ParamEnd(s, m) == IF m.end = 0 THEN NoMatch ELSE [m EXCEPT !.end = c(s, m.end)]

\* (?'param'(?>\g<c>(?>const)?\g<c>(?>\w+)\g<c>(?>\w+)\g<c>(?>=\g<c>(?>...)){0,1})\g<c>)
param(s, p) == ParamEnd(s, ParamAt(s, p)).end

-----------------------------------------------------------------------------
(* The four patterns, each tried at one start position *)

RECURSIVE commentsEnd(_, _)
RECURSIVE commentsAgain(_, _, _)
\* \g<comment>*+ from p: block comments, one right after the other.
commentsEnd(s, p) == commentsAgain(s, p, comment(s, p))

commentsAgain(s, p, q) == IF q = 0 THEN p ELSE commentsEnd(s, q)

\* The engine structure whose pieces end at ps = <<p1, p2, p3, p4, p5, p6>>:
\* "#define", white space, "ENGINE_STRUCTURE_", digits, white space, the name.
EngineStructCaptures(s, ps) ==
    IF /\ ps[1] # 0 /\ ps[2] > ps[1]
       /\ ps[3] # 0 /\ ps[4] > ps[3]
       /\ ps[5] > ps[4] /\ ps[6] > ps[5]
    THEN [end |-> ps[6], name |-> SubSeq(s, ps[5], ps[6] - 1)]
    ELSE NoMatch

\* ENGINESTRUCTREGEX:
\* ^\s*+\K(?>#define)\s++(?>ENGINE_STRUCTURE_\d++)\s++(?<name>\w++)
ENGINESTRUCTREGEX(s, p) ==
    IF LineStart(s, p)
    THEN EngineStructCaptures(s,
            ThenWord(s, ThenSpace(s, ThenDigits(s,
                ThenLit(s, ThenSpace(s, <<Lit(s, SpaceEnd(s, p), Codes("#define"))>>),
                        Codes("ENGINE_STRUCTURE_"))))))
    ELSE NoMatch

\* No look ahead for a keyword.
NoKeywordAhead(s, p) == FALSE

\* A look ahead for a keyword as a whole word: the keyword and no word
\* character after it.
KeywordWordAhead(s, p) ==
    \E k \in {"return", "if", "else", "switch"} :
        /\ Lit(s, p, Codes(k)) # 0
        /\ ~IsWord(At(s, Lit(s, p, Codes(k))))

\* (?!(return|if|else|switch)) at p
KeywordAhead(s, p) ==
    \/ Lit(s, p, Codes("return")) # 0
    \/ Lit(s, p, Codes("if")) # 0
    \/ Lit(s, p, Codes("else")) # 0
    \/ Lit(s, p, Codes("switch")) # 0

RECURSIVE parametersEnd(_, _)
RECURSIVE parametersAgain(_, _, _)
\* (?>(?>\g<param>,(?=\g<param>)|\g<param>(?=\))))*+ from p: a parameter and a
\* comma that another parameter follows, or a parameter that ")" follows.
parametersEnd(s, p) == parametersAgain(s, p, param(s, p))

\* The repetition after a parameter from p that ended at r.
parametersAgain(s, p, r) ==
    IF r = 0 THEN p
    ELSE IF At(s, r) = Ord(",") /\ param(s, r + 1) # 0
    THEN parametersEnd(s, r + 1)
    ELSE IF At(s, r) = Ord(")") THEN r
    ELSE p

\* ( and the parameters next.
ThenParameters(s, ps) == Append(ps, parametersEnd(s, Last(ps) + 1))

\* The declaration taken whatever follows its ")" and \g<c>.
FunctionCapturesAnyEnd(s, ps) ==
    IF /\ ~KeywordAhead(s, ps[1])
       /\ ps[2] > ps[1] /\ ps[4] > ps[3]
       /\ At(s, ps[5]) = Ord("(")
       /\ At(s, ps[6]) = Ord(")")
    THEN [end |-> ps[7],
          type |-> SubSeq(s, ps[1], ps[2] - 1),
          name |-> SubSeq(s, ps[3], ps[4] - 1),
          parametersString |-> SubSeq(s, ps[5] + 1, ps[6] - 1)]
    ELSE NoMatch

\* The declaration whose pieces end at ps = <<p0, t, p1, n, p2, q, p3>>: the
\* comments, the type, \g<c>, the name, \g<c>, "(" and the parameters, ")" and
\* \g<c>.
FunctionCaptures(s, ps) ==
    IF /\ ~KeywordAhead(s, ps[1])
       /\ ps[2] > ps[1] /\ ps[4] > ps[3]
       /\ At(s, ps[5]) = Ord("(")
       /\ At(s, ps[6]) = Ord(")")
       /\ At(s, ps[7]) = Ord(";")
    THEN [end |-> ps[7] + 1,
          type |-> SubSeq(s, ps[1], ps[2] - 1),
          name |-> SubSeq(s, ps[3], ps[4] - 1),
          parametersString |-> SubSeq(s, ps[5] + 1, ps[6] - 1)]
    ELSE NoMatch

\* FUNCTIONDECLARATIONREGEX:
\* ^\g<comment>*+\K(?<type>(?>(?!(return|if|else|switch))\w+))\g<c>(?<name>(?>\w+))
\* \g<c>\((?<parametersString>...*+)\)\g<c>;
FUNCTIONDECLARATIONREGEX(s, p) ==
    IF LineStart(s, p)
    THEN FunctionCaptures(s,
            ThenCharC(s, ThenParameters(s, ThenC(s, ThenWord(s, ThenC(s,
                ThenWord(s, <<commentsEnd(s, p)>>)))))))
    ELSE NoMatch

\* FUNTIONPARAMETERREGEX:
\* \g<c>(?>const){0,1}\g<c>(?<type>(?>\w+))\g<c>(?<name>(?>\w+))\g<c>
\* (?>=\g<c>(?<defaultValue>...))?\g<c>(?!,)?
\* The closing (?!,)? is an optional assertion and never fails the match.
FUNTIONPARAMETERREGEX(s, p) == ParamEnd(s, ParamAt(s, p))

\* The constant with its type wherever the pieces put it, at the first column
\* or not.
ConstantCapturesAnyColumn(s, ps, v) ==
    IF /\ ps[2] > ps[1] /\ ps[4] > ps[3]
       /\ At(s, ps[5]) = Ord("=")
       /\ v # 0
    THEN [end |-> v,
          type |-> SubSeq(s, ps[1], ps[2] - 1),
          name |-> SubSeq(s, ps[3], ps[4] - 1),
          value |-> SubSeq(s, ps[6], v - 1)]
    ELSE NoMatch

\* A constant whose pieces end at ps (see Declaration) and whose value ends
\* at v.
ConstantCaptures(s, ps, v) ==
    IF /\ LineStart(s, ps[1])
       /\ ps[2] > ps[1] /\ ps[4] > ps[3]
       /\ At(s, ps[5]) = Ord("=")
       /\ v # 0
    THEN [end |-> v,
          type |-> SubSeq(s, ps[1], ps[2] - 1),
          name |-> SubSeq(s, ps[3], ps[4] - 1),
          value |-> SubSeq(s, ps[6], v - 1)]
    ELSE NoMatch

\* The value after the pieces ps.
ConstantValue(s, ps) == ConstantCaptures(s, ps, Value(s, ps[6]))

\* The atomic group of CONSTANTREGEX after an optional "const" that ends at k:
\* \g<c>^\K(?<type>(?>\w+))\g<c>(?<name>(?>\w+))\g<c>=\g<c>(?<value>...)
ConstantTail(s, k) == ConstantValue(s, Declaration(s, k))

\* (?>const)? and the atomic group from p0.
ConstantConst(s, p0) ==
    OrElse(IF Lit(s, p0, Codes("const")) # 0
           THEN ConstantTail(s, Lit(s, p0, Codes("const"))) ELSE NoMatch,
           ConstantTail(s, p0))

\* The constant m taken whatever is at p1.
ConstantAnyEnd(s, m, p1) ==
    IF m.end # 0 THEN [m EXCEPT !.end = p1] ELSE NoMatch

\* ; at p1, after the \g<c> that follows the constant m.
ConstantSemicolon(s, m, p1) ==
    IF m.end # 0 /\ At(s, p1) = Ord(";") THEN [m EXCEPT !.end = p1 + 1] ELSE NoMatch

\* \g<c>; after the constant m.
ConstantEnd(s, m) == ConstantSemicolon(s, m, c(s, m.end))

\* CONSTANTREGEX:
\* ^\g<comment>*+(?>(?>const)?\g<c>^\K(?<type>...)\g<c>(?<name>...)\g<c>=\g<c>
\* (?<value>...))\g<c>;
CONSTANTREGEX(s, p) ==
    IF LineStart(s, p) THEN ConstantEnd(s, ConstantConst(s, commentsEnd(s, p)))
    ELSE NoMatch

-----------------------------------------------------------------------------
(* jpcre2's RegexMatch::match() with the "g" modifier: every match, left to  *)
(* right, each search starting where the previous match ended               *)

RECURSIVE MatchEngineStructs(_, _)
RECURSIVE EngineStructsFrom(_, _, _)
MatchEngineStructs(s, p) ==
    IF p > Len(s) THEN <<>> ELSE EngineStructsFrom(s, p, ENGINESTRUCTREGEX(s, p))

\* The matches from p on, m being the attempt at p.
EngineStructsFrom(s, p, m) ==
    IF m.end # 0 THEN <<m>> \o MatchEngineStructs(s, m.end)
    ELSE MatchEngineStructs(s, p + 1)

RECURSIVE MatchFunctions(_, _)
RECURSIVE FunctionsFrom(_, _, _)
MatchFunctions(s, p) ==
    IF p > Len(s) THEN <<>> ELSE FunctionsFrom(s, p, FUNCTIONDECLARATIONREGEX(s, p))

FunctionsFrom(s, p, m) ==
    IF m.end # 0 THEN <<m>> \o MatchFunctions(s, m.end)
    ELSE MatchFunctions(s, p + 1)

RECURSIVE MatchParameters(_, _)
RECURSIVE ParametersFrom(_, _, _)
MatchParameters(s, p) ==
    IF p > Len(s) THEN <<>> ELSE ParametersFrom(s, p, FUNTIONPARAMETERREGEX(s, p))

ParametersFrom(s, p, m) ==
    IF m.end # 0 THEN <<m>> \o MatchParameters(s, m.end)
    ELSE MatchParameters(s, p + 1)

RECURSIVE MatchConstants(_, _)
RECURSIVE ConstantsFrom(_, _, _)
MatchConstants(s, p) ==
    IF p > Len(s) THEN <<>> ELSE ConstantsFrom(s, p, CONSTANTREGEX(s, p))

ConstantsFrom(s, p, m) ==
    IF m.end # 0 THEN <<m>> \o MatchConstants(s, m.end)
    ELSE MatchConstants(s, p + 1)

-----------------------------------------------------------------------------
(* Files: the bytes the file system hands to FileToBuffer *)

\* The most lines a modelled script has.
MaxLines == 2

\* A result object is handed to ParseFile again only while it holds fewer
\* members than this.
MaxMembers == 2

\* The lines the modelled scripts are made of: an engine structure, a function
\* and a constant that share the name N, and a function whose name sorts
\* before N.
Lines ==
    << "#define ENGINE_STRUCTURE_0 N",
       "int N(int a);",
       "int N = 3;",
       "void B();" >>

RECURSIVE Text(_)
\* The characters of a script made of the given lines, each ended by a line feed.
Text(ls) ==
    IF ls = <<>> THEN <<>>
    ELSE Codes(Lines[Head(ls)]) \o <<LF>> \o Text(Tail(ls))

\* The modelled scripts: up to MaxLines of the lines, none of them twice.
Scripts ==
    {ls \in UNION {[1..n -> DOMAIN Lines] : n \in 0..MaxLines} :
        \A i, j \in DOMAIN ls : i # j => ls[i] # ls[j]}

\* One byte per character.
Narrow(text) == text

\* Two bytes per character, low byte first.
WideLE(text) ==
    [i \in 1..(2 * Len(text)) |->
        IF i % 2 = 1 THEN text[(i + 1) \div 2] % 256 ELSE text[i \div 2] \div 256]

\* Two bytes per character, high byte first.
WideBE(text) ==
    [i \in 1..(2 * Len(text)) |->
        IF i % 2 = 1 THEN text[(i + 1) \div 2] \div 256 ELSE text[i \div 2] % 256]

\* The byte-order mark U+FEFF.
BOM == 65279

\* The layouts a script is stored in: plain ASCII; with a closing comment
\* holding U+00E9 as one Latin-1 byte or as two UTF-8 bytes; UTF-8 behind its
\* byte-order mark; and the 16-bit layouts with and without the mark.
Layouts ==
    {"ascii", "latin1", "utf8", "utf8bom", "utf16le", "utf16be",
     "utf16le_nobom", "utf16be_nobom"}

Bytes(layout, text) ==
    CASE layout = "ascii"         -> Narrow(text)
      [] layout = "latin1"        -> Narrow(text) \o Codes("//") \o <<233, LF>>
      [] layout = "utf8"          -> Narrow(text) \o Codes("//") \o <<195, 169, LF>>
      [] layout = "utf8bom"       -> <<239, 187, 191>> \o Narrow(text)
      [] layout = "utf16le"       -> WideLE(<<BOM>> \o text)
      [] layout = "utf16be"       -> WideBE(<<BOM>> \o text)
      [] layout = "utf16le_nobom" -> WideLE(text)
      [] layout = "utf16be_nobom" -> WideBE(text)

\* The contents of the files ParseFile is run on: every script as ASCII and as
\* UTF-16 behind its mark, low byte first; the scripts of at most one line in
\* the other layouts too.
Files ==
    {Bytes(layout, Text(script)) : layout \in {"ascii", "utf16le"}, script \in Scripts}
    \cup {Bytes(layout, Text(script)) :
              layout \in Layouts, script \in {ls \in Scripts : Len(ls) <= 1}}

-----------------------------------------------------------------------------
(* The encoding detector, Utf8_16_Read::determineEncoding *)

NarrowCodes == {"uni8Bit", "uni7Bit", "uniCookie"}
WideCodes == {"uni16BE", "uni16LE", "uni16BE_NoBOM", "uni16LE_NoBOM"}

RECURSIVE ValidUtf8(_, _)
\* Whether the bytes from p on are ASCII and well-formed two-byte sequences.
ValidUtf8(buf, p) ==
    IF p > Len(buf) THEN TRUE
    ELSE IF buf[p] < 128 THEN ValidUtf8(buf, p + 1)
    ELSE /\ buf[p] \in 194..223
         /\ At(buf, p + 1) \in 128..191
         /\ ValidUtf8(buf, p + 2)

\* The verdict on a sample: the byte-order marks first; then, for the 16-bit
\* layouts without a mark, a zero byte in every second place; then the narrow
\* cases.  A sample behind the UTF-8 mark is neither: its verdict, "Unknown",
\* is none of the narrow or wide codes.
determineEncoding(buf) ==
    LET n == Len(buf)
        even == {i \in 1..n : i % 2 = 0}
        odd  == {i \in 1..n : i % 2 = 1}
    IN  IF n >= 2 /\ buf[1] = 254 /\ buf[2] = 255 THEN "uni16BE"
        ELSE IF n >= 2 /\ buf[1] = 255 /\ buf[2] = 254 THEN "uni16LE"
        ELSE IF n >= 3 /\ buf[1] = 239 /\ buf[2] = 187 /\ buf[3] = 191 THEN "Unknown"
        ELSE IF n >= 2 /\ n % 2 = 0 /\ (\A i \in even : buf[i] = 0)
                /\ (\A i \in odd : buf[i] # 0) THEN "uni16LE_NoBOM"
        ELSE IF n >= 2 /\ n % 2 = 0 /\ (\A i \in odd : buf[i] = 0)
                /\ (\A i \in even : buf[i] # 0) THEN "uni16BE_NoBOM"
        ELSE IF n = 0 \/ \E i \in 1..n : buf[i] >= 128
        THEN IF n # 0 /\ ValidUtf8(buf, 1) THEN "uniCookie" ELSE "uni8Bit"
        ELSE "uni7Bit"

-----------------------------------------------------------------------------
(* The result object and the two extraction paths *)

\* std::wstring from std::string: each byte widened to one 16-bit unit.
str2wstr(str) == [i \in 1..Len(str) |-> str[i]]

\* A default-constructed ScriptMember with the given kind, type, name, value
\* and parameters.
ScriptMember(id, type, name, value, params) ==
    [mID |-> id, sType |-> type, sName |-> name, sValue |-> value, sParams |-> params]

ScriptParamMember(type, name, defaultValue) ==
    [sType |-> type, sName |-> name, sDefaultValue |-> defaultValue]

\* A ScriptParseResults as its constructor leaves it.
ScriptParseResults ==
    [Members |-> <<>>, EngineStructuresCount |-> 0, FunctionsCount |-> 0,
     ConstantsCount |-> 0]

-----------------------------------------------------------------------------
(* Sources: scripts written out from the declarations they hold, so that what *)
(* a script declares is known apart from what the patterns find in it        *)

\* The most parameters a written-out function has.
MaxParams == 2

\* A written-out parameter: "const" or not, type, name and default value ("" for
\* none).  The default values are a number, a string with a comma in it, a
\* vector of vectors and an object of objects.
ParamForms ==
    { [const |-> FALSE, type |-> "int",    name |-> "a", defaultValue |-> ""],
      [const |-> TRUE,  type |-> "float",  name |-> "b", defaultValue |-> "-1.5"],
      [const |-> FALSE, type |-> "string", name |-> "s", defaultValue |-> "\"x, y\""],
      [const |-> FALSE, type |-> "vector", name |-> "v",
       defaultValue |-> "[[1, 2], [3, [4]]]"],
      [const |-> FALSE, type |-> "object", name |-> "o",
       defaultValue |-> "{p, {q, [r]}}"] }

\* The parameter lists: up to MaxParams parameters, in every order, a
\* parameter twice too.
ParamLists == UNION {[1..n -> ParamForms] : n \in 0..MaxParams}

\* type name or const type name, and = value where there is one.
ParamText(p) ==
    (IF p.const THEN Codes("const ") ELSE <<>>)
        \o Codes(p.type) \o Codes(" ") \o Codes(p.name)
        \o (IF p.defaultValue = "" THEN <<>> ELSE Codes(" = ") \o Codes(p.defaultValue))

RECURSIVE ParamListText(_)
\* The parameters, a comma and a space between two of them.
ParamListText(ps) ==
    IF ps = <<>> THEN <<>>
    ELSE IF Len(ps) = 1 THEN ParamText(ps[1])
    ELSE ParamText(ps[1]) \o Codes(", ") \o ParamListText(Tail(ps))

\* type name(parameters)
Signature(type, name, ps) ==
    Codes(type) \o Codes(" ") \o Codes(name) \o Codes("(") \o ParamListText(ps)
        \o Codes(")")

\* The record a function declaration stands for.
FunctionMember(type, name, ps) ==
    ScriptMember("Function", str2wstr(Codes(type)), str2wstr(Codes(name)), <<>>,
        [j \in DOMAIN ps |->
            ScriptParamMember(str2wstr(Codes(ps[j].type)), str2wstr(Codes(ps[j].name)),
                              str2wstr(Codes(ps[j].defaultValue)))])

\* The record a constant declaration stands for.
ConstantMember(type, name, value) ==
    ScriptMember("Constant", str2wstr(Codes(type)), str2wstr(Codes(name)),
                 str2wstr(Codes(value)), <<>>)

\* A source is a script together with the declaration it is about: its form
\* and variant say how the declaration is written, decl is the record the
\* declaration stands for, text is the script.
Source(form, variant, decl, text) ==
    [form |-> form, variant |-> variant, decl |-> decl, text |-> text \o <<LF>>]

\* Prototypes: void F(parameters);
Prototypes ==
    {Source("prototype", "", FunctionMember("void", "F", ps),
            Signature("void", "F", ps) \o Codes(";")) : ps \in ParamLists}

\* Functions with a block body instead of the semicolon, the body on the line
\* of the signature or on the lines after it.
BodyLayouts == {"sameLine", "nextLine"}
Body(layout) ==
    CASE layout = "sameLine"          -> Codes(" { return a; }")
      [] layout = "nextLine"          -> <<LF>> \o Codes("{") \o <<LF>>
                                            \o Codes("    return a;") \o <<LF>> \o Codes("}")

Definitions ==
    {Source("definition", layout, FunctionMember("int", "G", ps),
            Signature("int", "G", ps) \o Body(layout)) :
        layout \in BodyLayouts, ps \in {ps \in ParamLists : Len(ps) <= 1}}

\* The well-formed declarations that follow a comment or a malformed
\* declaration: a function and two constants, the value of the second a
\* string that holds a semicolon.
Followers ==
    { [decl |-> FunctionMember("void", "B", <<>>), text |-> Codes("void B();")],
      [decl |-> ConstantMember("int", "N", "3"), text |-> Codes("int N = 3;")],
      [decl |-> ConstantMember("string", "T", "\";\""),
       text |-> Codes("string T = \";\";")] }

\* Comments before a declaration: a line comment on the line before; a block
\* comment over two lines that closes on a line of its own, that closes right
\* before the declaration, and that closes before white space and the
\* declaration.
CommentForms == {"line", "blockOwnLine", "blockThenDeclaration", "blockThenSpace"}
Comment(form) ==
    CASE form = "line"                 -> Codes("// a comment") \o <<LF>>
      [] form = "blockOwnLine"         -> Codes("/* a") \o <<LF>> \o Codes("   b */") \o <<LF>>
      [] form = "blockThenDeclaration" -> Codes("/* a") \o <<LF>> \o Codes("   b */")
      [] form = "blockThenSpace"       -> Codes("/* a") \o <<LF>> \o Codes("   b */ ")

Commented ==
    {Source("commented", form, d.decl, Comment(form) \o d.text) :
        form \in CommentForms, d \in Followers}

\* Statements that begin a line with a control-flow keyword and look like a
\* prototype after it.
Keywords == {"if", "else", "switch", "return"}
Statements ==
    {Source("statement", k, FunctionMember(k, "F", ps),
            Signature(k, "F", ps) \o Codes(";")) :
        k \in Keywords, ps \in {ps \in ParamLists : Len(ps) <= 1}}

\* Constants with and without the initializer and the semicolon.
ConstantForms == {"whole", "noInitializer", "noSemicolon", "neither"}
ConstantText(form, type, name, value) ==
    Codes(type) \o Codes(" ") \o Codes(name)
        \o (IF form \in {"whole", "noSemicolon"} THEN Codes(" = ") \o Codes(value) ELSE <<>>)
        \o (IF form \in {"whole", "noInitializer"} THEN Codes(";") ELSE <<>>)

ConstantValues == {"3", "\"x\"", "[1.0, 2.0]"}
Constants ==
    {Source("constant", form, ConstantMember("int", "K", v),
            ConstantText(form, "int", "K", v)) :
        form \in ConstantForms, v \in ConstantValues}

\* Declarations that match no pattern: a constant without its semicolon or
\* without its value, a parameter list that ends in a comma or is not closed,
\* an engine structure without its number, and a string that is not closed.
Malformed ==
    { "int K = 3", "int K = ;", "void K(int a,);", "void K(int a",
      "#define ENGINE_STRUCTURE_ K", "string K = \"a;" }

\* A malformed declaration and a well-formed one on the line after it.
AfterMalformed ==
    {Source("afterMalformed", m, d.decl, Codes(m) \o <<LF>> \o d.text) :
        m \in Malformed, d \in Followers}

\* The lines of a mixed script and the record each stands for: two engine
\* structures, two functions and two constants.
MixedDeclarations ==
    << [decl |-> ScriptMember("EngineStruct", <<>>, str2wstr(Codes("N")), <<>>, <<>>),
        text |-> Codes("#define ENGINE_STRUCTURE_0 N")],
       [decl |-> ScriptMember("EngineStruct", <<>>, str2wstr(Codes("E")), <<>>, <<>>),
        text |-> Codes("#define ENGINE_STRUCTURE_1 E")],
       [decl |-> FunctionMember("int", "N",
                    <<[const |-> FALSE, type |-> "int", name |-> "a",
                       defaultValue |-> ""]>>),
        text |-> Codes("int N(int a);")],
       [decl |-> FunctionMember("void", "B", <<>>), text |-> Codes("void B();")],
       [decl |-> ConstantMember("int", "N", "3"), text |-> Codes("int N = 3;")],
       [decl |-> ConstantMember("string", "T", "\";\""),
        text |-> Codes("string T = \";\";")] >>

\* The number of lines of a mixed script.
MixedLines == 3

\* The lines of a mixed script: MixedLines of the declarations, none of them
\* twice, in every order.
MixedOrders ==
    {ls \in [1..MixedLines -> DOMAIN MixedDeclarations] :
        \A i, j \in DOMAIN ls : i # j => ls[i] # ls[j]}

RECURSIVE MixedText(_)
\* The lines ls, a line feed between two of them.
MixedText(ls) ==
    IF Len(ls) = 1 THEN MixedDeclarations[ls[1]].text
    ELSE MixedDeclarations[ls[1]].text \o <<LF>> \o MixedText(Tail(ls))

\* Scripts that declare records of the three kinds in every order; order is
\* the declarations of the script from top to bottom.
Mixed ==
    {[form |-> "mixed", variant |-> "", decl |-> MixedDeclarations[ls[1]].decl,
      text |-> MixedText(ls) \o <<LF>>, order |-> ls] : ls \in MixedOrders}

\* Two prototypes, one after the other, each with parameters of its own;
\* before is the record the first stands for, decl the record of the second.
PairParamLists ==
    {ps \in ParamLists : \A j \in DOMAIN ps : ps[j].name \in {"a", "b"}}

Pairs ==
    {[form |-> "pair", variant |-> "", decl |-> FunctionMember("int", "H", qs),
      text |-> Signature("void", "F", ps) \o Codes(";") \o <<LF>>
                  \o Signature("int", "H", qs) \o Codes(";") \o <<LF>>,
      before |-> FunctionMember("void", "F", ps)] :
        ps \in PairParamLists, qs \in PairParamLists}

\* A constant whose type is at the first column, behind a const on its line,
\* behind a const that ends the line before, and behind white space.
Columns == {"firstColumn", "constSameLine", "constLineBefore", "space", "tab",
            "constThenSpace"}
Indent(column) ==
    CASE column = "firstColumn"     -> <<>>
      [] column = "constSameLine"   -> Codes("const ")
      [] column = "constLineBefore" -> Codes("const") \o <<LF>>
      [] column = "space"           -> Codes("  ")
      [] column = "tab"             -> <<9>>
      [] column = "constThenSpace"  -> Codes("const") \o <<LF>> \o Codes("  ")
AtColumns ==
    {Source("atColumn", column, ConstantMember("int", "X", "3"),
            Indent(column) \o Codes("int X = 3;")) : column \in Columns}

\* Prototypes whose return type begins with, ends with or holds the letters
\* of a control-flow keyword.
KeywordTypes ==
    {"iffy", "elsewhere", "returning", "switchboard", "gif", "selse", "int"}
LikeKeywords ==
    {Source("likeKeyword", type, FunctionMember(type, "F", <<>>),
            Signature(type, "F", <<>>) \o Codes(";")) : type \in KeywordTypes}

\* Prototypes with one parameter whose type or name begins with or is the
\* letters const.
ConstLike ==
    { [const |-> FALSE, type |-> "constant_t", name |-> "x", defaultValue |-> ""],
      [const |-> FALSE, type |-> "int", name |-> "constant", defaultValue |-> ""],
      [const |-> FALSE, type |-> "int", name |-> "const", defaultValue |-> ""],
      [const |-> TRUE, type |-> "int", name |-> "a", defaultValue |-> ""],
      [const |-> TRUE, type |-> "constant_t", name |-> "x", defaultValue |-> "3"] }
ConstWords ==
    {Source("constWord", p.type, FunctionMember("void", "F", <<p>>),
            Signature("void", "F", <<p>>) \o Codes(";")) : p \in ConstLike}

Sources ==
    Prototypes \cup Definitions \cup Commented \cup Statements \cup Constants
        \cup AfterMalformed \cup Mixed \cup Pairs \cup AtColumns \cup LikeKeywords
        \cup ConstWords

\* The texts of the sources: the bytes of their files, one byte per character.
SourceTexts == {src.text : src \in Sources}

\* The engine structure records with the name stored as the type too.
EngineStructsTyped(es) ==
    [i \in DOMAIN es |->
        ScriptMember("EngineStruct", str2wstr(es[i].name), str2wstr(es[i].name),
                     <<>>, <<>>)]

\* The records the narrow path appends for a subject, in the order it appends
\* them: the engine structure matches, then the function matches, each with the
\* matches of the parameter pattern in its parametersString, then the constant
\* matches.  Every capture goes through str2wstr.
EngineStructsA(es) ==
    [i \in DOMAIN es |->
        ScriptMember("EngineStruct", <<>>, str2wstr(es[i].name), <<>>, <<>>)]

\* The parameters stored newest first.
ParamsNewestFirst(ps) ==
    [j \in DOMAIN ps |->
        ScriptParamMember(str2wstr(ps[Len(ps) + 1 - j].type),
                          str2wstr(ps[Len(ps) + 1 - j].name),
                          str2wstr(ps[Len(ps) + 1 - j].defaultValue))]

ParamsA(ps) ==
    [j \in DOMAIN ps |->
        ScriptParamMember(str2wstr(ps[j].type), str2wstr(ps[j].name),
                          str2wstr(ps[j].defaultValue))]

RECURSIVE ParamsUpTo(_, _)
\* The parameters of the first i functions, one list after the other.
ParamsUpTo(fs, i) ==
    IF i = 0 THEN <<>>
    ELSE ParamsUpTo(fs, i - 1) \o ParamsA(MatchParameters(fs[i].parametersString, 1))

\* The function records with sParams never emptied between two functions.
FunctionsKeepParams(fs) ==
    [i \in DOMAIN fs |->
        ScriptMember("Function", str2wstr(fs[i].type), str2wstr(fs[i].name), <<>>,
                     ParamsUpTo(fs, i))]

FunctionsA(fs) ==
    [i \in DOMAIN fs |->
        ScriptMember("Function", str2wstr(fs[i].type), str2wstr(fs[i].name), <<>>,
                     ParamsA(MatchParameters(fs[i].parametersString, 1)))]

ConstantsA(cs) ==
    [i \in DOMAIN cs |->
        ScriptMember("Constant", str2wstr(cs[i].type), str2wstr(cs[i].name),
                     str2wstr(cs[i].value), <<>>)]

ExtractA(sFileContents) ==
    [engineStructs |-> EngineStructsA(MatchEngineStructs(sFileContents, 1)),
     functions |-> FunctionsA(MatchFunctions(sFileContents, 1)),
     constants |-> ConstantsA(MatchConstants(sFileContents, 1))]

\* sNewFile.assign((wchar_t*)sFileContents.c_str(), sFileContents.size() / 2):
\* the bytes taken two at a time, low byte first, as they lie.
sNewFile(sFileContents) ==
    [i \in 1..(Len(sFileContents) \div 2) |->
        sFileContents[2 * i - 1] + 256 * sFileContents[2 * i]]

\* The records the wide path appends for a wide subject: the captures as they
\* are.
EngineStructsW(es) ==
    [i \in DOMAIN es |-> ScriptMember("EngineStruct", <<>>, es[i].name, <<>>, <<>>)]

ParamsW(ps) ==
    [j \in DOMAIN ps |-> ScriptParamMember(ps[j].type, ps[j].name, ps[j].defaultValue)]

FunctionsW(fs) ==
    [i \in DOMAIN fs |->
        ScriptMember("Function", fs[i].type, fs[i].name, <<>>,
                     ParamsW(MatchParameters(fs[i].parametersString, 1)))]

ConstantsW(cs) ==
    [i \in DOMAIN cs |->
        ScriptMember("Constant", cs[i].type, cs[i].name, cs[i].value, <<>>)]

WideMatches(subject) ==
    [engineStructs |-> EngineStructsW(MatchEngineStructs(subject, 1)),
     functions |-> FunctionsW(MatchFunctions(subject, 1)),
     constants |-> ConstantsW(MatchConstants(subject, 1))]

ExtractW(sFileContents) == WideMatches(sNewFile(sFileContents))

\* The matches of every buffer ParseFile can hold (a modelled file's bytes, a
\* source's, or nothing), worked out once.
MatchedA == [b \in Files \cup SourceTexts \cup {<<>>} |-> ExtractA(b)]
MatchedW == [b \in Files \cup SourceTexts \cup {<<>>} |-> ExtractW(b)]

RECURSIVE UniqueNames(_, _)
\* The records of members whose name none of seen and no earlier one has.
UniqueNames(members, seen) ==
    IF members = <<>> THEN <<>>
    ELSE IF Head(members).sName \in seen THEN UniqueNames(Tail(members), seen)
    ELSE <<Head(members)>>
            \o UniqueNames(Tail(members), seen \cup {Head(members).sName})

\* The records stored by name: a record whose name Members already has is
\* dropped.
StoreByName(outParseResults, m) ==
    [Members |-> UniqueNames(outParseResults.Members
                    \o m.engineStructs \o m.functions \o m.constants, {}),
     EngineStructuresCount |-> Len(m.engineStructs),
     FunctionsCount |-> Len(m.functions),
     ConstantsCount |-> Len(m.constants)]

\* The records appended with the constants before the functions.
StoreConstantsFirst(outParseResults, m) ==
    [Members |-> outParseResults.Members
                    \o m.engineStructs \o m.constants \o m.functions,
     EngineStructuresCount |-> Len(m.engineStructs),
     FunctionsCount |-> Len(m.functions),
     ConstantsCount |-> Len(m.constants)]

\* What either path does with its matches m: the records are appended to
\* whatever Members holds, the three counts are assigned.
Store(outParseResults, m) ==
    [Members |-> outParseResults.Members
                    \o m.engineStructs \o m.functions \o m.constants,
     EngineStructuresCount |-> Len(m.engineStructs),
     FunctionsCount |-> Len(m.functions),
     ConstantsCount |-> Len(m.constants)]

\* CreateNWScriptStructureA: the narrow path on the bytes.
CreateNWScriptStructureA(sFileContents, outParseResults) ==
    Store(outParseResults, MatchedA[sFileContents])

\* CreateNWScriptStructureW: the wide path on the bytes.
CreateNWScriptStructureW(sFileContents, outParseResults) ==
    Store(outParseResults, MatchedW[sFileContents])

-----------------------------------------------------------------------------
(* The final sort *)

RECURSIVE Less(_, _)
\* a < b for std::wstring: code unit by code unit, a proper prefix first.
Less(a, b) ==
    IF b = <<>> THEN FALSE
    ELSE IF a = <<>> THEN TRUE
    ELSE IF Head(a) # Head(b) THEN Head(a) < Head(b)
    ELSE Less(Tail(a), Tail(b))

\* The builds of std::sort.  std::sort orders by the comparison and leaves the
\* order of equivalent elements unspecified: a build may keep them as they
\* were or not.  Which it does is fixed by the build, not by the call.
SortBuilds == {"keepsEquals", "reversesEquals"}

RECURSIVE Insert(_, _, _)
\* x put into the sorted sequence: after the elements that are not greater
\* (the order of equals kept) or before the elements that are not less (the
\* order of equals reversed).
Insert(x, sorted, build) ==
    IF sorted = <<>> THEN <<x>>
    ELSE IF \/ Less(x.sName, Head(sorted).sName)
            \/ build = "reversesEquals" /\ ~Less(Head(sorted).sName, x.sName)
    THEN <<x>> \o sorted
    ELSE <<Head(sorted)>> \o Insert(x, Tail(sorted), build)

\* The sort left out: Members as the passes appended them.
NoSort(members, build) == members

RECURSIVE StdSort(_, _)
\* std::sort(Members.begin(), Members.end(),
\*           [](ScriptMember a, ScriptMember b) { return a.sName < b.sName; })
StdSort(members, build) ==
    IF members = <<>> THEN <<>>
    ELSE Insert(members[Len(members)],
                StdSort(SubSeq(members, 1, Len(members) - 1), build), build)

-----------------------------------------------------------------------------
(* ParseFile *)

MAX_PATH == 260

\* constexpr const int blockSize = 128 * 1024 + 4
blockSize == 131076

\* No file under the name (no sequence of bytes): the stream does not open.
NoFile == <<-1>>

\* What ParseFile is called with.  A file name is modelled by what the call
\* sees of it: its length, what GetFullPathName returns for it, and the bytes
\* the file system holds under it (NoFile when it cannot be opened).
ShortName == 12
FileNames ==
    {[size |-> ShortName, full |-> ShortName, file |-> f] : f \in Files \cup {NoFile}}
    \cup {[size |-> MAX_PATH - 2, full |-> r, file |-> NoFile] : r \in {0, MAX_PATH + 1}}
    \cup {[size |-> MAX_PATH - 1, full |-> MAX_PATH - 1, file |-> NoFile]}

\* FileToBuffer: false and nothing read when the stream does not open, else
\* true and the file's bytes.
FileToBuffer(fileName) ==
    IF fileName.file = NoFile
    THEN [success |-> FALSE, sContents |-> <<>>]
    ELSE [success |-> TRUE, sContents |-> fileName.file]

\* The sample handed to the detector: at most blockSize bytes.
Sample(sFileContents) ==
    SubSeq(sFileContents, 1,
           IF blockSize > Len(sFileContents) THEN Len(sFileContents) ELSE blockSize)

\* The dispatch with the wide path taken only behind a byte-order mark.
DispatchOnMark(encoding, sFileContents, outParseResults) ==
    IF encoding \in NarrowCodes
    THEN [result |-> CreateNWScriptStructureA(sFileContents, outParseResults),
          ran |-> <<"CreateNWScriptStructureA">>]
    ELSE IF encoding \in {"uni16BE", "uni16LE"}
    THEN [result |-> CreateNWScriptStructureW(sFileContents, outParseResults),
          ran |-> <<"CreateNWScriptStructureW">>]
    ELSE [result |-> outParseResults, ran |-> <<>>]

\* The dispatch on the verdict: the narrow path, the wide path, or neither.
\* The value is the result object after it and the paths that ran.
Dispatch(encoding, sFileContents, outParseResults) ==
    IF encoding \in NarrowCodes
    THEN [result |-> CreateNWScriptStructureA(sFileContents, outParseResults),
          ran |-> <<"CreateNWScriptStructureA">>]
    ELSE IF encoding \in WideCodes
    THEN [result |-> CreateNWScriptStructureW(sFileContents, outParseResults),
          ran |-> <<"CreateNWScriptStructureW">>]
    ELSE [result |-> outParseResults, ran |-> <<>>]

\* The value ParseFile returns once the file has been read.  The flag
\* FileToBuffer returned is stored in `success` and not looked at again.
ReturnValue(success) == "true"

\* What a call of ParseFile yields: the value returned, the result object as
\* the call leaves it, and a record of the call: the steps taken, the flag of
\* FileToBuffer, the bytes read, the verdict, and Members before the sort.

\* An early return that empties the result object before it returns false.
ReturnCleared(outParseResults) ==
    [ret |-> "false", result |-> ScriptParseResults, steps |-> <<>>,
     success |-> FALSE, sFileContents |-> <<>>, encoding |-> "none",
     appended |-> <<>>]

\* The early returns: false, the result object untouched.
ReturnFalse(outParseResults) ==
    [ret |-> "false", result |-> outParseResults, steps |-> <<>>,
     success |-> FALSE, sFileContents |-> <<>>, encoding |-> "none",
     appended |-> <<>>]

\* The sort and the return, after the dispatch d.
SortAndReturn(read, encoding, d, build) ==
    [ret |-> ReturnValue(read.success),
     result |-> [d.result EXCEPT !.Members = StdSort(d.result.Members, build)],
     steps |-> <<"FileToBuffer", "determineEncoding">> \o d.ran \o <<"sort">>,
     success |-> read.success,
     sFileContents |-> read.sContents,
     encoding |-> encoding,
     appended |-> d.result.Members]

\* The dispatch on the verdict and what follows it.
DispatchAndSort(read, encoding, outParseResults, build) ==
    SortAndReturn(read, encoding,
                  Dispatch(encoding, read.sContents, outParseResults), build)

\* The detector on a sample of what was read, and what follows it.
DetectAndDispatch(read, outParseResults, build) ==
    DispatchAndSort(read, determineEncoding(Sample(read.sContents)),
                    outParseResults, build)

\* ParseFile(sFileName, outParseResults)
ParseFile(sFileName, outParseResults, build) ==
    IF sFileName.size >= MAX_PATH - 1 THEN ReturnFalse(outParseResults)
    ELSE IF sFileName.full = 0 THEN ReturnFalse(outParseResults)
    ELSE IF sFileName.full > MAX_PATH THEN ReturnFalse(outParseResults)
    ELSE DetectAndDispatch(FileToBuffer(sFileName), outParseResults, build)

-----------------------------------------------------------------------------
(* Margins (src/src/Utils/AnchorMap.h) *)

\* The largest margin and the largest displacement of the model, each way.
MaxMargin == 2
MaxDisplacement == 1

\* struct OFFSETRECT: four LONG margins.
OFFSETRECT(left, top, right, bottom) ==
    [leftMargin |-> left, topMargin |-> top, rightMargin |-> right,
     bottomMargin |-> bottom]

\* The margin rectangles and the displacement points of the model.
OffsetRects ==
    [leftMargin : -MaxMargin..MaxMargin, topMargin : -MaxMargin..MaxMargin,
     rightMargin : -MaxMargin..MaxMargin, bottomMargin : -MaxMargin..MaxMargin]

POINT == [x : -MaxDisplacement..MaxDisplacement, y : -MaxDisplacement..MaxDisplacement]

\* ControlAnchorMap::moveOffsetRect: marginRect after its four statements.
moveOffsetRect(marginRect, displacement) ==
    [marginRect EXCEPT
        !.topMargin = (@ + displacement.x) + displacement.y,
        !.rightMargin = @ + displacement.x,
        !.bottomMargin = @ + displacement.y]

\* No call of moveOffsetRect yet.
NoMove == [marginRect |-> OFFSETRECT(0, 0, 0, 0), displacement |-> [x |-> 0, y |-> 0],
           called |-> FALSE]

-----------------------------------------------------------------------------
(* The compiler glue (src/src/NWScriptCompiler.cpp) *)

\* tolower of the C locale.
tolower(ch) == IF ch \in 65..90 THEN ch + 32 ELSE ch

\* strcmp: the strings compared as they are.
strcmp(a, b) == IF a = b THEN 0 ELSE IF Less(a, b) THEN -1 ELSE 1

\* _stricmp: the strings compared with every character in lower case.
stricmp(a, b) ==
    IF [i \in DOMAIN a |-> tolower(a[i])] = [i \in DOMAIN b |-> tolower(b[i])] THEN 0
    ELSE IF Less([i \in DOMAIN a |-> tolower(a[i])], [i \in DOMAIN b |-> tolower(b[i])])
    THEN -1 ELSE 1

\* std::filesystem::path::filename(): the last component of the path.
filename(path) == path[Len(path)]

\* The paths _sourcePath is set to: a directory and a file name.
SourcePaths ==
    { <<Codes("scripts"), Codes("nwscript.nss")>>,
      <<Codes("scripts"), Codes("NWScript.NSS")>>,
      <<Codes("scripts"), Codes("nwscript.nss.bak")>>,
      <<Codes("scripts"), Codes("a.nss")>>,
      <<Codes("nwscript.nss"), Codes("a.nss")>> }

\* What NscCompileScript returns; "other" is any code that is none of the three.
NscResults == {"NscResult_Failure", "NscResult_Include", "NscResult_Success", "other"}

\* The files compileScript and disassembleBinary write, by their suffix.
Suffixes == {"compiledScriptSuffix", "debugSymbolsFileSuffix", "dependencyFileSuffix",
             "disassembledScriptSuffix"}

\* What compileScript finds: the compiler's result and whether it names
\* dependencies, the two modes of the object, the two settings, and the files
\* that bufferToFile cannot write.
CompileInputs ==
    [result : NscResults, dependencies : BOOLEAN,
     fetchPreprocessorOnly : BOOLEAN, makeDependencyView : BOOLEAN,
     generateSymbols : BOOLEAN, generateMakeDeps : BOOLEAN,
     unwritable : SUBSET (Suffixes \ {"disassembledScriptSuffix"})]

\* What disassembleBinary finds: whether the library returns its error text,
\* and the files that bufferToFile cannot write.
DisassembleInputs ==
    [error : BOOLEAN, unwritable : SUBSET {"disassembledScriptSuffix"}]

\* bufferToFile on the file of the suffix.
bufferToFile(in, suffix) == suffix \notin in.unwritable

\* MakeDependenciesView: the view goes to the logger, no file is written.
MakeDependenciesView(in, written) == [ret |-> TRUE, written |-> written]

\* MakeDependenciesFile: the dependency file, when there are dependencies.
MakeDependenciesFile(in, written) ==
    IF ~in.dependencies THEN [ret |-> TRUE, written |-> written]
    ELSE IF ~bufferToFile(in, "dependencyFileSuffix")
    THEN [ret |-> FALSE, written |-> written]
    ELSE [ret |-> TRUE, written |-> Append(written, "dependencyFileSuffix")]

\* compileScript with every successful result written out, whatever the modes.
compileScriptAlwaysWrites(in) ==
    IF in.result # "NscResult_Success" THEN [ret |-> FALSE, written |-> <<>>]
    ELSE [ret |-> TRUE, written |-> <<"compiledScriptSuffix", "debugSymbolsFileSuffix">>]

\* compileScript from the switch on the compiler's result on: what it returns
\* and the files it has written.
compileScript(in) ==
    IF in.result = "NscResult_Failure" THEN [ret |-> FALSE, written |-> <<>>]
    ELSE IF in.result = "NscResult_Include" THEN [ret |-> TRUE, written |-> <<>>]
    ELSE IF in.result # "NscResult_Success" THEN [ret |-> FALSE, written |-> <<>>]
    ELSE IF in.fetchPreprocessorOnly THEN [ret |-> TRUE, written |-> <<>>]
    ELSE IF in.makeDependencyView THEN MakeDependenciesView(in, <<>>)
    ELSE IF ~bufferToFile(in, "compiledScriptSuffix")
    THEN [ret |-> FALSE, written |-> <<>>]
    ELSE IF in.generateSymbols /\ ~bufferToFile(in, "debugSymbolsFileSuffix")
    THEN [ret |-> FALSE, written |-> <<"compiledScriptSuffix">>]
    ELSE IF in.generateMakeDeps
    THEN MakeDependenciesFile(in,
            IF in.generateSymbols
            THEN <<"compiledScriptSuffix", "debugSymbolsFileSuffix">>
            ELSE <<"compiledScriptSuffix">>)
    ELSE [ret |-> TRUE,
          written |-> IF in.generateSymbols
                      THEN <<"compiledScriptSuffix", "debugSymbolsFileSuffix">>
                      ELSE <<"compiledScriptSuffix">>]

\* disassembleBinary: what it returns and the file it has written.
disassembleBinary(in) ==
    IF in.error THEN [ret |-> FALSE, written |-> <<>>]
    ELSE IF ~bufferToFile(in, "disassembledScriptSuffix")
    THEN [ret |-> FALSE, written |-> <<>>]
    ELSE [ret |-> TRUE, written |-> <<"disassembledScriptSuffix">>]

\* No compileScript or disassembleBinary in this call yet.
NotExecuted == [step |-> "none", ret |-> FALSE, written |-> <<>>]

\* No call of processFile yet.
NoProcess ==
    [pc |-> "idle", sourcePath |-> <<<<>>>>, compilerMode |-> 0, fromMemory |-> FALSE,
     steps |-> <<>>, log |-> {}, notified |-> <<>>, bSuccess |-> FALSE,
     executed |-> NotExecuted]

\* processFile returns without a word to the caller.
ReturnUnnotified(p, code) ==
    [p EXCEPT !.pc = "returned", !.log = @ \cup {code}]

\* The failure is logged, notifyCaller(false), return.
NotifyFailure(p, code) ==
    [p EXCEPT !.pc = "returned", !.log = @ \cup {code},
              !.notified = Append(@, FALSE)]

-----------------------------------------------------------------------------
(* The state machine: a caller with one result object *)

VARIABLES
    outParseResults,   \* the caller's result object
    ret,               \* what the last ParseFile on this object returned, "true"
                       \* or "false"; "none" for an object not yet handed to it
    call,              \* the last call: its argument, the result object on
                       \* entry, and ParseFile's record of it
    stdSort,           \* the build of std::sort
    thread,            \* of each thread: where it is in its ParseFile call, the
                       \* bytes it read, its result object, what it returned
    captureGroup,      \* the named capture vectors of the calls under way
    guard,             \* of each static Regex object: "uninitialized",
                       \* "initializing" or "initialized"
    constructed,       \* of each static Regex object: how often a
                       \* constructor has written it
    marginRect,        \* a dialog's margin rectangle
    moved,             \* the last moveOffsetRect: the rectangle it was handed
                       \* and the displacement
    process            \* the compiler object's processFile call

threadVars == <<thread, captureGroup, guard, constructed>>

toolVars == <<marginRect, moved, process>>

vars == <<outParseResults, ret, call, stdSort, threadVars, toolVars>>

\* The most threads that call ParseFile at a time.
MaxThreads == 2

Threads == 1..MaxThreads

\* The static Regex objects of the two paths, in the order of their
\* declarations: engineStructRegEx, functionsDeclarationRegEx,
\* functionsParamRegEx, constantsRegEx of CreateNWScriptStructureA ("A") and
\* of CreateNWScriptStructureW ("W").
StaticsPerPath == 4
RegexObjects == {"A", "W"} \X (1..StaticsPerPath)

\* A thread that is not in a call.
IdleThread ==
    [pc |-> "idle", static |-> 0, sFileContents |-> <<>>, path |-> "A",
     outParseResults |-> ScriptParseResults, ret |-> "none"]

\* No call yet.
NoCall ==
    [sFileName |-> [size |-> 0, full |-> 0, file |-> NoFile],
     entry |-> ScriptParseResults, steps |-> <<>>, success |-> FALSE,
     sFileContents |-> <<>>, encoding |-> "none", appended |-> <<>>]

Init ==
    /\ outParseResults = ScriptParseResults
    /\ ret = "none"
    /\ call = NoCall
    /\ stdSort \in SortBuilds
    /\ thread = [t \in Threads |-> IdleThread]
    /\ captureGroup = [t \in Threads |-> <<>>]
    /\ guard = [r \in RegexObjects |-> "uninitialized"]
    /\ constructed = [r \in RegexObjects |-> 0]
    /\ marginRect = OFFSETRECT(0, 0, 0, 0)
    /\ moved = NoMove
    /\ process = NoProcess

\* ParseFile returns o to the caller, who called it with sFileName and a
\* result object that held entry.
Return(sFileName, entry, o) ==
    /\ outParseResults' = o.result
    /\ ret' = o.ret
    /\ call' = [sFileName |-> sFileName, entry |-> entry,
                steps |-> o.steps, success |-> o.success,
                sFileContents |-> o.sFileContents,
                encoding |-> o.encoding, appended |-> o.appended]

\* The caller hands a file name and its result object to ParseFile.
CallParseFile ==
    /\ Len(outParseResults.Members) < MaxMembers
    /\ \E sFileName \in FileNames :
          Return(sFileName, outParseResults,
                 ParseFile(sFileName, outParseResults, stdSort))
    /\ UNCHANGED <<stdSort, toolVars, threadVars>>

\* The caller constructs a new result object.
NewResults ==
    /\ ret # "none"
    /\ outParseResults' = ScriptParseResults
    /\ ret' = "none"
    /\ call' = NoCall
    /\ UNCHANGED <<stdSort, toolVars, threadVars>>

Next == CallParseFile \/ NewResults

Spec == Init /\ [][Next]_vars

-----------------------------------------------------------------------------
(* The state machine of a caller who parses each source into a new result   *)
(* object                                                                    *)

\* The file names of the sources: short names that resolve, each with its
\* source's text as the file and, for the properties, the source itself.
SourceNames ==
    {[size |-> ShortName, full |-> ShortName, file |-> src.text, source |-> src] :
        src \in Sources}

\* The caller constructs a result object and hands it, with the file name of a
\* source, to ParseFile.
ParseSource ==
    /\ \E sFileName \in SourceNames :
          Return(sFileName, ScriptParseResults,
                 ParseFile(sFileName, ScriptParseResults, stdSort))
    /\ UNCHANGED <<stdSort, toolVars, threadVars>>

NextSource == ParseSource

SpecSources == Init /\ [][NextSource]_vars

-----------------------------------------------------------------------------
(* The state machine of threads that call ParseFile at the same time, each   *)
(* with a result object of its own.  A step of a thread is what it does from *)
(* one use of what the threads share to the next: a static Regex object's    *)
(* guard, or a match() on a static Regex object                              *)

\* The buffers the threads parse: three narrow ones and a wide one.
ThreadFiles ==
    { Bytes("ascii", Text(<<2>>)), Bytes("ascii", Text(<<3>>)),
      Bytes("ascii", Text(<<1, 4>>)), Bytes("utf16le_nobom", Text(<<4>>)) }

\* One captureGroup for all calls, as a static one would be.
CaptureShared(t) == 1

\* pcre2::VecNas captureGroup is an automatic variable: every call has its own.
CaptureOf(t) == t

\* The guard left as it is: nothing tells a second thread that the object is
\* under construction.
AcquireUnmarked(g, r) == g

\* The guard of a static taken: the object is marked as under construction.
Acquire(g, r) == [g EXCEPT ![r] = "initializing"]

\* The static Regex object the thread is at.
StaticAt(t) == <<thread[t].path, thread[t].static>>

\* The matches of the thread's buffer, on its path.
MatchedBy(t) ==
    IF thread[t].path = "W" THEN MatchedW[thread[t].sFileContents]
    ELSE MatchedA[thread[t].sFileContents]

\* The thread goes on behind the declaration of a static: to the next static,
\* or behind the last to the engine structure pass.
BehindStatic(t) ==
    IF thread[t].static < StaticsPerPath
    THEN [thread EXCEPT ![t].pc = "static", ![t].static = @ + 1]
    ELSE [thread EXCEPT ![t].pc = "engineStructs", ![t].static = 0]

\* ParseFile up to the dispatch: the thread reads a file, has the detector
\* look at it and enters the path of the verdict with a result object of its
\* own, where the declarations of the statics come first.
ThreadCall(t) ==
    /\ thread[t].pc = "idle"
    /\ \E f \in ThreadFiles :
          thread' = [thread EXCEPT ![t] =
                        [pc |-> "static", static |-> 1, sFileContents |-> f,
                         path |-> IF determineEncoding(Sample(f)) \in WideCodes
                                  THEN "W" ELSE "A",
                         outParseResults |-> ScriptParseResults, ret |-> "none"]]
    /\ UNCHANGED <<outParseResults, ret, call, stdSort, toolVars, captureGroup, guard,
                   constructed>>

\* The thread passes the declaration of a static that is initialized.
StaticPass(t) ==
    /\ thread[t].pc = "static"
    /\ guard[StaticAt(t)] = "initialized"
    /\ thread' = BehindStatic(t)
    /\ UNCHANGED <<outParseResults, ret, call, stdSort, toolVars, captureGroup, guard,
                   constructed>>

\* The thread finds the static uninitialized, takes its guard and starts to
\* construct the Regex object.  A thread that finds the guard taken waits.
StaticBegin(t) ==
    /\ thread[t].pc = "static"
    /\ guard[StaticAt(t)] = "uninitialized"
    /\ guard' = Acquire(guard, StaticAt(t))
    /\ thread' = [thread EXCEPT ![t].pc = "construct"]
    /\ UNCHANGED <<outParseResults, ret, call, stdSort, toolVars, captureGroup, constructed>>

\* The constructor is through: the object holds the compiled pattern and the
\* guard is released.
StaticEnd(t) ==
    /\ thread[t].pc = "construct"
    /\ constructed' = [constructed EXCEPT ![StaticAt(t)] = @ + 1]
    /\ guard' = [guard EXCEPT ![StaticAt(t)] = "initialized"]
    /\ thread' = BehindStatic(t)
    /\ UNCHANGED <<outParseResults, ret, call, stdSort, toolVars, captureGroup>>

\* regexMatch.match() on engineStructRegEx: the matches go to captureGroup.
EngineStructPass(t) ==
    /\ thread[t].pc = "engineStructs"
    /\ captureGroup' = [captureGroup EXCEPT ![CaptureOf(t)] = MatchedBy(t).engineStructs]
    /\ thread' = [thread EXCEPT ![t].pc = "functions"]
    /\ UNCHANGED <<outParseResults, ret, call, stdSort, toolVars, guard, constructed>>

\* The count and the records of the engine structures are taken from
\* captureGroup; then match() on functionsDeclarationRegEx.
FunctionPass(t) ==
    /\ thread[t].pc = "functions"
    /\ thread' = [thread EXCEPT
                    ![t].pc = "constants",
                    ![t].outParseResults.EngineStructuresCount =
                        Len(captureGroup[CaptureOf(t)]),
                    ![t].outParseResults.Members = @ \o captureGroup[CaptureOf(t)]]
    /\ captureGroup' = [captureGroup EXCEPT ![CaptureOf(t)] = MatchedBy(t).functions]
    /\ UNCHANGED <<outParseResults, ret, call, stdSort, toolVars, guard, constructed>>

\* The count and the records of the functions are taken from captureGroup;
\* then match() on constantsRegEx.
ConstantPass(t) ==
    /\ thread[t].pc = "constants"
    /\ thread' = [thread EXCEPT
                    ![t].pc = "sort",
                    ![t].outParseResults.FunctionsCount =
                        Len(captureGroup[CaptureOf(t)]),
                    ![t].outParseResults.Members = @ \o captureGroup[CaptureOf(t)]]
    /\ captureGroup' = [captureGroup EXCEPT ![CaptureOf(t)] = MatchedBy(t).constants]
    /\ UNCHANGED <<outParseResults, ret, call, stdSort, toolVars, guard, constructed>>

\* The count and the records of the constants are taken from captureGroup,
\* the path returns, ParseFile sorts Members and returns true.
SortPass(t) ==
    /\ thread[t].pc = "sort"
    /\ thread' = [thread EXCEPT
                    ![t].pc = "done",
                    ![t].ret = "true",
                    ![t].outParseResults.ConstantsCount =
                        Len(captureGroup[CaptureOf(t)]),
                    ![t].outParseResults.Members =
                        StdSort(@ \o captureGroup[CaptureOf(t)], stdSort)]
    /\ captureGroup' = [captureGroup EXCEPT ![CaptureOf(t)] = <<>>]
    /\ UNCHANGED <<outParseResults, ret, call, stdSort, toolVars, guard, constructed>>

\* The caller has its result and may call again.
ThreadIdle(t) ==
    /\ thread[t].pc = "done"
    /\ thread' = [thread EXCEPT ![t] = IdleThread]
    /\ UNCHANGED <<outParseResults, ret, call, stdSort, toolVars, captureGroup, guard,
                   constructed>>

NextThreads ==
    \E t \in Threads :
        \/ ThreadCall(t)
        \/ StaticPass(t)
        \/ StaticBegin(t)
        \/ StaticEnd(t)
        \/ EngineStructPass(t)
        \/ FunctionPass(t)
        \/ ConstantPass(t)
        \/ SortPass(t)
        \/ ThreadIdle(t)

SpecThreads == Init /\ [][NextThreads]_vars

-----------------------------------------------------------------------------
(* Callers of moveOffsetRect *)

\* A caller holds any margin rectangle.
InitMargins ==
    /\ outParseResults = ScriptParseResults
    /\ ret = "none"
    /\ call = NoCall
    /\ stdSort = "keepsEquals"
    /\ thread = [t \in Threads |-> IdleThread]
    /\ captureGroup = [t \in Threads |-> <<>>]
    /\ guard = [r \in RegexObjects |-> "uninitialized"]
    /\ constructed = [r \in RegexObjects |-> 0]
    /\ marginRect \in OffsetRects
    /\ moved = NoMove
    /\ process = NoProcess

\* The caller displaces its margin rectangle.
MoveOffsetRect ==
    /\ \E displacement \in POINT :
          /\ moveOffsetRect(marginRect, displacement) \in OffsetRects
          /\ moved' = [marginRect |-> marginRect, displacement |-> displacement,
                       called |-> TRUE]
          /\ marginRect' = moveOffsetRect(marginRect, displacement)
    /\ UNCHANGED <<outParseResults, ret, call, stdSort, threadVars, process>>

NextMargins == MoveOffsetRect

SpecMargins == InitMargins /\ [][NextMargins]_vars

-----------------------------------------------------------------------------
(* A caller of NWScriptCompiler::processFile.  A step is what processFile   *)
(* does from one call of a collaborator (the resource manager, the file,    *)
(* the compiler library, the caller's callback) to the next.                 *)

InitCompiler ==
    /\ outParseResults = ScriptParseResults
    /\ ret = "none"
    /\ call = NoCall
    /\ stdSort = "keepsEquals"
    /\ thread = [t \in Threads |-> IdleThread]
    /\ captureGroup = [t \in Threads |-> <<>>]
    /\ guard = [r \in RegexObjects |-> "uninitialized"]
    /\ constructed = [r \in RegexObjects |-> 0]
    /\ marginRect = OFFSETRECT(0, 0, 0, 0)
    /\ moved = NoMove
    /\ process = NoProcess

\* The caller has set the source path and the mode and calls processFile.
ProcessFile ==
    /\ process.pc \in {"idle", "returned"}
    /\ \E path \in SourcePaths, mode \in {0, 1}, fromMemory \in BOOLEAN :
          process' = [NoProcess EXCEPT !.pc = "reserved", !.sourcePath = path,
                                       !.compilerMode = mode,
                                       !.fromMemory = fromMemory]
    /\ UNCHANGED <<outParseResults, ret, call, stdSort, threadVars, marginRect, moved>>

\* The safeguard: nwscript.nss is not compiled.
ReservedName ==
    /\ process.pc = "reserved"
    /\ process' =
          IF /\ stricmp(filename(process.sourcePath), Codes("nwscript.nss")) = 0
             /\ process.compilerMode = 0
          THEN NotifyFailure(process, "NSC2010")
          ELSE [process EXCEPT !.pc = "initialize"]
    /\ UNCHANGED <<outParseResults, ret, call, stdSort, threadVars, marginRect, moved>>

\* The compiler is initialized if it is not already: isInitialized() and
\* initialize() say what they say.
InitializeCompiler ==
    /\ process.pc = "initialize"
    /\ \E isInitialized \in BOOLEAN, initialize \in BOOLEAN :
          process' =
              IF isInitialized THEN [process EXCEPT !.pc = "load"]
              ELSE IF ~initialize
              THEN NotifyFailure([process EXCEPT !.steps = Append(@, "initialize")],
                                 "NSC2001")
              ELSE [process EXCEPT !.pc = "load",
                                   !.steps = Append(@, "initialize")]
    /\ UNCHANGED <<outParseResults, ret, call, stdSort, threadVars, marginRect, moved>>

\* The file is loaded from disk if it is not handed over in memory.
LoadFile ==
    /\ process.pc = "load"
    /\ \E fileToBuffer \in BOOLEAN :
          process' =
              IF process.fromMemory THEN [process EXCEPT !.pc = "execute"]
              ELSE IF ~fileToBuffer
              THEN NotifyFailure([process EXCEPT !.steps = Append(@, "fileToBuffer")],
                                 "NSC2002")
              ELSE [process EXCEPT !.pc = "execute",
                                   !.steps = Append(@, "fileToBuffer")]
    /\ UNCHANGED <<outParseResults, ret, call, stdSort, threadVars, marginRect, moved>>

\* bSuccess = compileScript(...) in compile mode.
Compile ==
    /\ process.pc = "execute"
    /\ process.compilerMode = 0
    /\ \E in \in CompileInputs :
          process' = [process EXCEPT
                        !.pc = "notify",
                        !.steps = Append(@, "compileScript"),
                        !.bSuccess = compileScript(in).ret,
                        !.executed = [step |-> "compileScript", in |-> in,
                                      ret |-> compileScript(in).ret,
                                      written |-> compileScript(in).written]]
    /\ UNCHANGED <<outParseResults, ret, call, stdSort, threadVars, marginRect, moved>>

\* bSuccess = disassembleBinary(...) in any other mode.
Disassemble ==
    /\ process.pc = "execute"
    /\ process.compilerMode # 0
    /\ \E in \in DisassembleInputs :
          process' = [process EXCEPT
                        !.pc = "notify",
                        !.steps = Append(@, "disassembleBinary"),
                        !.bSuccess = disassembleBinary(in).ret,
                        !.executed = [step |-> "disassembleBinary", in |-> in,
                                      ret |-> disassembleBinary(in).ret,
                                      written |-> disassembleBinary(in).written]]
    /\ UNCHANGED <<outParseResults, ret, call, stdSort, threadVars, marginRect, moved>>

\* notifyCaller(bSuccess), and processFile returns.
NotifyCaller ==
    /\ process.pc = "notify"
    /\ process' = [process EXCEPT !.pc = "returned",
                                  !.notified = Append(@, process.bSuccess)]
    /\ UNCHANGED <<outParseResults, ret, call, stdSort, threadVars, marginRect, moved>>

NextCompiler ==
    \/ ProcessFile
    \/ ReservedName
    \/ InitializeCompiler
    \/ LoadFile
    \/ Compile
    \/ Disassemble
    \/ NotifyCaller

SpecCompiler == InitCompiler /\ [][NextCompiler]_vars

-----------------------------------------------------------------------------
(* Properties *)

\* The records of a sequence, and how often x is among them.
Range(seq) == {seq[i] : i \in DOMAIN seq}
Count(seq, x) == Cardinality({i \in DOMAIN seq : seq[i] = x})

\* The same records, each as often, in whatever order.
SameRecords(a, b) ==
    /\ Len(a) = Len(b)
    /\ \A x \in Range(a) \cup Range(b) : Count(a, x) = Count(b, x)

\* The records of members that are named n, in their order.
Named(members, n) ==
    LET IsNamed(m) == m.sName = n IN SelectSeq(members, IsNamed)

\* The number of records of a kind in Members.
KindCount(kind) ==
    Cardinality({i \in DOMAIN outParseResults.Members :
                    outParseResults.Members[i].mID = kind})

\* The last call took the step.
Ran(step) == \E i \in DOMAIN call.steps : call.steps[i] = step

\* The records the last call appended: what follows, in Members before the
\* sort, the records the object held on entry.
Extracted == SubSeq(call.appended, Len(call.entry.Members) + 1, Len(call.appended))

\* C1: after every ParseFile call that returns true, Members is sorted
\* ascending by sName under code-unit comparison: of two adjacent records,
\* whatever their kinds, the second is not named less than the first.
C1_MembersSorted ==
    ret = "true" =>
        \A i \in 1..(Len(outParseResults.Members) - 1) :
            ~Less(outParseResults.Members[i + 1].sName,
                  outParseResults.Members[i].sName)

\* A call returned true after the sort moved records: records of two kinds
\* lie next to each other, the first named less than the second.
C1_Witness ==
    /\ ret = "true"
    /\ call.appended # outParseResults.Members
    /\ \E i \in 1..(Len(outParseResults.Members) - 1) :
          /\ outParseResults.Members[i].mID # outParseResults.Members[i + 1].mID
          /\ Less(outParseResults.Members[i].sName,
                  outParseResults.Members[i + 1].sName)

\* C2: the final sort is stable: after a call that returns true, the records
\* of any one name stand in Members in the order in which they stood before
\* the sort (so a function before a constant of its name).
C2_SortIsStable ==
    ret = "true" =>
        \A n \in {m.sName : m \in Range(call.appended)} :
            Named(outParseResults.Members, n) = Named(call.appended, n)

\* C3: after any sequence of ParseFile calls on a result object each of the
\* three counts is the number of records of its kind in Members.
C3_CountsMatchMembers ==
    /\ outParseResults.EngineStructuresCount = KindCount("EngineStruct")
    /\ outParseResults.FunctionsCount = KindCount("Function")
    /\ outParseResults.ConstantsCount = KindCount("Constant")

\* C4: after a ParseFile call that returns true, Members holds exactly the
\* records extracted from that call's file, whatever the result object held
\* on entry.
C4_ResultIsFresh ==
    ret = "true" => SameRecords(outParseResults.Members, Extracted)

\* C5: when FileToBuffer fails to open the file, ParseFile returns false and
\* neither extraction path runs.
C5_UnreadableFails ==
    (Ran("FileToBuffer") /\ ~call.success) =>
        /\ ret = "false"
        /\ ~Ran("CreateNWScriptStructureA")
        /\ ~Ran("CreateNWScriptStructureW")

\* C6: when the detector's verdict is none of the narrow or wide codes,
\* ParseFile runs the narrow extraction path.
C6_UnknownRunsNarrow ==
    (Ran("determineEncoding") /\ call.encoding \notin NarrowCodes \cup WideCodes) =>
        Ran("CreateNWScriptStructureA")

\* The file of the same text with one byte per character: the bytes of a file
\* behind the little-endian mark, without the mark and without the high bytes.
NarrowOf(sFileContents) ==
    [i \in 1..(Len(sFileContents) \div 2 - 1) |-> sFileContents[2 * i + 1]]

\* C7: for a buffer that begins with the little-endian byte-order mark, parsed
\* into an empty result object, the wide path runs and the result holds the
\* records and the counts that the call yields on the narrow file of the same
\* text.
C7_WideAsNarrow ==
    (/\ ret = "true"
     /\ call.entry = ScriptParseResults
     /\ Len(call.sFileContents) >= 2
     /\ call.sFileContents[1] = 255 /\ call.sFileContents[2] = 254) =>
        LET narrow == ParseFile([call.sFileName EXCEPT
                                    !.file = NarrowOf(call.sFileContents)],
                                ScriptParseResults, stdSort).result
        IN  /\ Ran("CreateNWScriptStructureW")
            /\ SameRecords(outParseResults.Members, narrow.Members)
            /\ outParseResults.EngineStructuresCount = narrow.EngineStructuresCount
            /\ outParseResults.FunctionsCount = narrow.FunctionsCount
            /\ outParseResults.ConstantsCount = narrow.ConstantsCount

\* The declarations of the last call's file, as the path that ran matched
\* them.
Declared ==
    IF Ran("CreateNWScriptStructureA") THEN MatchedA[call.sFileContents]
    ELSE IF Ran("CreateNWScriptStructureW") THEN MatchedW[call.sFileContents]
    ELSE [engineStructs |-> <<>>, functions |-> <<>>, constants |-> <<>>]

\* The names the last call's file declares both as a function and as a
\* constant.
DeclaredTwice ==
    {f.sName : f \in Range(Declared.functions)}
        \cap {k.sName : k \in Range(Declared.constants)}

\* C9: when the file of a call that returns true declares one name both as a
\* function and as a constant, Members holds both records, and the records of
\* that name lie next to each other: no record of another name is between two
\* of them.
C9_BothKindsAdjacent ==
    ret = "true" =>
        \A n \in DeclaredTwice :
            /\ \A f \in Range(Declared.functions) :
                  f.sName = n => f \in Range(outParseResults.Members)
            /\ \A k \in Range(Declared.constants) :
                  k.sName = n => k \in Range(outParseResults.Members)
            /\ \A i, j \in DOMAIN outParseResults.Members :
                  (/\ i < j
                   /\ outParseResults.Members[i].sName = n
                   /\ outParseResults.Members[j].sName = n) =>
                      \A h \in i..j : outParseResults.Members[h].sName = n

\* A file declared a name as a function and as a constant, and was parsed into
\* a result object that held a record of another name.
C9_Witness ==
    /\ ret = "true"
    /\ DeclaredTwice # {}
    /\ call.entry.Members # <<>>
    /\ \E m \in Range(outParseResults.Members) : m.sName \notin DeclaredTwice

\* C10: in a call that reaches the dispatch, a narrow verdict runs the narrow
\* path once and not the wide one, a wide verdict runs the wide path once and
\* not the narrow one, and no call runs both.
C10_OnePathPerVerdict ==
    /\ call.encoding \in NarrowCodes =>
          /\ Count(call.steps, "CreateNWScriptStructureA") = 1
          /\ ~Ran("CreateNWScriptStructureW")
    /\ call.encoding \in WideCodes =>
          /\ Count(call.steps, "CreateNWScriptStructureW") = 1
          /\ ~Ran("CreateNWScriptStructureA")
    /\ ~(Ran("CreateNWScriptStructureA") /\ Ran("CreateNWScriptStructureW"))

\* A file without a byte-order mark was given a wide verdict and the wide
\* path found a declaration in it.
C10_Witness ==
    /\ call.encoding = "uni16LE_NoBOM"
    /\ Ran("CreateNWScriptStructureW")
    /\ Extracted # <<>>

\* C11: whenever ParseFile returns false the caller's result object is as it
\* was on entry (no record appended, no count changed, no sort applied) and
\* the call took no step: no file read, no detection, no extraction path.
C11_FalseLeavesResult ==
    ret = "false" =>
        /\ outParseResults = call.entry
        /\ call.steps = <<>>

\* ParseFile returned false, the full path not fitting the buffer, to a caller
\* whose result object held records of an earlier call.
C11_Witness ==
    /\ ret = "false"
    /\ call.sFileName.full > MAX_PATH
    /\ call.entry.Members # <<>>

-----------------------------------------------------------------------------
(* Properties of the patterns, on the sources *)

\* The source of the last call.
TheSource == call.sFileName.source

\* The last call returned true on a source of the form.
Parsed(form) == ret = "true" /\ TheSource.form = form

\* The Function records in Members with the name of the source's declaration.
FunctionsFound ==
    {m \in Range(outParseResults.Members) :
        m.mID = "Function" /\ m.sName = TheSource.decl.sName}

\* The Constant records in Members with the name of the source's declaration.
ConstantsFound ==
    {m \in Range(outParseResults.Members) :
        m.mID = "Constant" /\ m.sName = TheSource.decl.sName}

\* C12: the Function record of a prototype lists the parameters in the order
\* of the declaration: as many as are declared, and the j-th of them has the
\* type and the name of the j-th declared, none left out, twice or moved.
C12_ParamsInOrder ==
    Parsed("prototype") =>
        /\ FunctionsFound # {}
        /\ \A m \in FunctionsFound :
              /\ Len(m.sParams) = Len(TheSource.decl.sParams)
              /\ \A j \in DOMAIN m.sParams :
                    /\ m.sParams[j].sType = TheSource.decl.sParams[j].sType
                    /\ m.sParams[j].sName = TheSource.decl.sParams[j].sName

\* A prototype with two different parameters was parsed and its record holds
\* two parameters.
C12_Witness ==
    /\ Parsed("prototype")
    /\ Len(TheSource.decl.sParams) = 2
    /\ TheSource.decl.sParams[1].sName # TheSource.decl.sParams[2].sName
    /\ \E m \in FunctionsFound : Len(m.sParams) = 2

\* The default value is a vector or an object with a comma and a bracket
\* inside it.
IsNested(defaultValue) ==
    /\ defaultValue # <<>>
    /\ defaultValue[1] \in {Ord("["), Ord("{")}
    /\ \E i, j \in 2..(Len(defaultValue) - 1) :
          /\ defaultValue[i] = Ord(",")
          /\ defaultValue[j] \in {Ord("["), Ord("{")}

\* C13: a parameter whose default value is a bracketed literal with commas and
\* brackets inside it is one parameter of the record, its default value the
\* whole literal, and the parameters declared after it are in the record too.
C13_NestedDefaultWhole ==
    Parsed("prototype") =>
        \A j \in DOMAIN TheSource.decl.sParams :
            IsNested(TheSource.decl.sParams[j].sDefaultValue) =>
                /\ FunctionsFound # {}
                /\ \A m \in FunctionsFound :
                      /\ Len(m.sParams) = Len(TheSource.decl.sParams)
                      /\ m.sParams[j].sDefaultValue
                            = TheSource.decl.sParams[j].sDefaultValue
                      /\ \A h \in (j + 1)..Len(m.sParams) :
                            m.sParams[h] = TheSource.decl.sParams[h]

\* A prototype whose first parameter has a vector of vectors as its default
\* value and whose second has none was parsed, and its record holds both.
C13_Witness ==
    /\ Parsed("prototype")
    /\ Len(TheSource.decl.sParams) = 2
    /\ IsNested(TheSource.decl.sParams[1].sDefaultValue)
    /\ TheSource.decl.sParams[1].sDefaultValue[1] = Ord("[")
    /\ TheSource.decl.sParams[2].sDefaultValue = <<>>
    /\ \E m \in FunctionsFound :
          /\ Len(m.sParams) = 2
          /\ IsNested(m.sParams[1].sDefaultValue)

\* The Function records in Members.
FunctionRecords == {m \in Range(outParseResults.Members) : m.mID = "Function"}

\* The Constant records in Members.
ConstantRecords == {m \in Range(outParseResults.Members) : m.mID = "Constant"}

\* C14: a function whose signature is followed by a block body, not by ";",
\* yields no Function record and is not counted in FunctionsCount.
C14_DefinitionNotExtracted ==
    Parsed("definition") =>
        /\ FunctionRecords = {}
        /\ outParseResults.FunctionsCount = 0

\* A function with a parameter and its body on the lines after the signature
\* went through the narrow path.
C14_Witness ==
    /\ Parsed("definition")
    /\ TheSource.variant = "nextLine"
    /\ Len(TheSource.decl.sParams) = 1
    /\ Ran("CreateNWScriptStructureA")

\* C16: no Function record has if, else, switch or return as its type, and a
\* statement that begins its line with one of them and goes on like a
\* prototype yields no Function record.
C16_NoKeywordFunction ==
    ret = "true" =>
        /\ \A m \in FunctionRecords :
              m.sType \notin {str2wstr(Codes(k)) : k \in Keywords}
        /\ TheSource.form = "statement" =>
              /\ FunctionRecords = {}
              /\ outParseResults.FunctionsCount = 0

\* The statement "return F();" went through the narrow path.
C16_Witness ==
    /\ Parsed("statement")
    /\ TheSource.variant = "return"
    /\ TheSource.decl.sParams = <<>>
    /\ Ran("CreateNWScriptStructureA")

\* C17: a constant declaration yields its Constant record when it has both
\* the initializer and the semicolon; without either there is no record, the
\* count is 0 and the call still returns true.
C17_ConstantNeedsBoth ==
    (Ran("CreateNWScriptStructureA") /\ TheSource.form = "constant") =>
        /\ ret = "true"
        /\ TheSource.variant = "whole" =>
              /\ ConstantRecords = {TheSource.decl}
              /\ outParseResults.ConstantsCount = 1
        /\ TheSource.variant # "whole" =>
              /\ ConstantRecords = {}
              /\ outParseResults.ConstantsCount = 0

\* A constant with its initializer and without its semicolon went through the
\* narrow path and left no record.
C17_Witness ==
    /\ Parsed("constant")
    /\ TheSource.variant = "noSemicolon"
    /\ Ran("CreateNWScriptStructureA")
    /\ outParseResults.Members = <<>>

\* C15: a comment before a declaration (a line comment on the line before, or
\* a block comment over several lines, also one that closes on the line of
\* the declaration with white space after it) does not keep the function or
\* constant declared after it from being extracted with its type and name.
C15_CommentsDoNotBreak ==
    Parsed("commented") =>
        \E m \in Range(outParseResults.Members) :
            /\ m.mID = TheSource.decl.mID
            /\ m.sType = TheSource.decl.sType
            /\ m.sName = TheSource.decl.sName

\* C18: a declaration that matches no pattern does not end the extraction:
\* the call returns true and the well-formed declaration on the line after it
\* is extracted.
C18_MalformedSkipped ==
    (Ran("CreateNWScriptStructureA") /\ TheSource.form = "afterMalformed") =>
        /\ ret = "true"
        /\ TheSource.decl \in Range(outParseResults.Members)

-----------------------------------------------------------------------------
(* Properties of the threads *)

\* C19: every static Regex object is constructed at most once, whatever the
\* threads do at the same time, and once it is initialized it is never
\* written again: no step of a later call writes an initialized object.
C19_CompiledOnce ==
    [][\A r \in RegexObjects :
          /\ constructed'[r] <= 1
          /\ guard[r] = "initialized" =>
                /\ constructed'[r] = constructed[r]
                /\ guard'[r] = "initialized"]_vars

\* Two threads make their first call at the same time: one constructs the
\* first static of the narrow path while the other waits at its declaration.
C19_Witness ==
    \E t, u \in Threads :
        /\ t # u
        /\ thread[t].pc = "construct" /\ thread[u].pc = "static"
        /\ StaticAt(t) = <<"A", 1>> /\ StaticAt(u) = <<"A", 1>>
        /\ guard[<<"A", 1>>] = "initializing"

\* What the call of the thread yields when it runs alone.
Alone(t) ==
    ParseFile([size |-> ShortName, full |-> ShortName, file |-> thread[t].sFileContents],
              ScriptParseResults, stdSort)

\* C20: whatever other calls run at the same time on other result objects,
\* a call ends with the Members and the counts it yields when it runs alone.
C20_AsAlone ==
    \A t \in Threads :
        thread[t].pc = "done" =>
            /\ thread[t].outParseResults = Alone(t).result
            /\ thread[t].ret = Alone(t).ret

\* A call has ended with records in Members while another thread, on another
\* buffer, was between two passes of its call.
C20_Witness ==
    \E t, u \in Threads :
        /\ t # u
        /\ thread[t].pc = "done"
        /\ thread[t].outParseResults.Members # <<>>
        /\ thread[u].pc \in {"functions", "constants", "sort"}
        /\ thread[u].sFileContents # thread[t].sFileContents
        /\ captureGroup[CaptureOf(u)] # <<>>

-----------------------------------------------------------------------------
(* Properties of the records *)

\* C21: in every record of Members the kind says which fields are filled:
\* an EngineStruct record has no type, value or parameters, a Function record
\* no value, a Constant record no parameters; and every record has a name.
C21_KindDeterminesFields ==
    \A i \in DOMAIN outParseResults.Members :
        LET m == outParseResults.Members[i]
        IN  /\ m.sName # <<>>
            /\ m.mID \in {"EngineStruct", "Function", "Constant"}
            /\ m.mID = "EngineStruct" =>
                  m.sType = <<>> /\ m.sValue = <<>> /\ m.sParams = <<>>
            /\ m.mID = "Function" => m.sValue = <<>>
            /\ m.mID = "Constant" => m.sParams = <<>>

\* Members holds an engine structure, a function with a parameter and a
\* constant with its value.
C21_Witness ==
    /\ ret = "true"
    /\ \E m \in Range(outParseResults.Members) : m.mID = "EngineStruct"
    /\ \E m \in Range(outParseResults.Members) :
          m.mID = "Function" /\ m.sParams # <<>>
    /\ \E m \in Range(outParseResults.Members) :
          m.mID = "Constant" /\ m.sValue # <<>>


\* C22: moveOffsetRect displaces the margin rectangle by the displacement
\* point: leftMargin and rightMargin each change by displacement.x, topMargin
\* and bottomMargin each change by displacement.y.
C22_MovedByDisplacement ==
    moved.called =>
        /\ marginRect.leftMargin = moved.marginRect.leftMargin + moved.displacement.x
        /\ marginRect.rightMargin = moved.marginRect.rightMargin + moved.displacement.x
        /\ marginRect.topMargin = moved.marginRect.topMargin + moved.displacement.y
        /\ marginRect.bottomMargin = moved.marginRect.bottomMargin + moved.displacement.y


\* The records the declarations of a mixed script stand for that are of the
\* kind, from top to bottom.
DeclaredOf(kind) ==
    LET decls == [i \in DOMAIN TheSource.order |->
                     MixedDeclarations[TheSource.order[i]].decl]
        IsKind(m) == m.mID = kind
    IN  SelectSeq(decls, IsKind)

\* C23: the records of one extraction are appended in the order of the
\* passes, all engine structures, then all functions, then all constants,
\* those of a pass from the top of the file to its bottom and each with the
\* kind of its pass; the sort is the last step, after the path has run, and
\* what the caller sees is the appended records sorted.
C23_PassOrder ==
    Parsed("mixed") =>
        /\ Extracted = DeclaredOf("EngineStruct") \o DeclaredOf("Function")
                          \o DeclaredOf("Constant")
        /\ call.steps = <<"FileToBuffer", "determineEncoding",
                          "CreateNWScriptStructureA", "sort">>
        /\ SameRecords(outParseResults.Members, Extracted)

\* A script that declares two constants and then a function was parsed: the
\* function was appended first, then the constants as they lie in the file,
\* and the sort moved them.
C23_Witness ==
    /\ Parsed("mixed")
    /\ TheSource.order = <<6, 5, 4>>
    /\ Len(Extracted) = 3
    /\ Extracted[1].mID = "Function"
    /\ Extracted[2].sName = str2wstr(Codes("T"))
    /\ outParseResults.Members # Extracted

\* C24: the parameters of a Function record are those of its own parameter
\* list: of two prototypes, one after the other, each record holds as many
\* parameters as its list declares, none for an empty list, and none of the
\* prototype before it.
C24_ParamsOfOwnList ==
    Parsed("pair") =>
        /\ Extracted = <<TheSource.before, TheSource.decl>>
        /\ \A i \in DOMAIN Extracted :
              Len(Extracted[i].sParams)
                  = Len(<<TheSource.before, TheSource.decl>>[i].sParams)

\* A prototype with two parameters and after it one with none were parsed, and
\* the record of the second has no parameter.
C24_Witness ==
    /\ Parsed("pair")
    /\ Len(TheSource.before.sParams) = 2
    /\ TheSource.decl.sParams = <<>>
    /\ Len(Extracted) = 2
    /\ Extracted[2].sParams = <<>>

\* C28: the type of a constant begins at the first column of a line.  int X =
\* 3; at the first column yields the record of type int, name X, value 3, also
\* behind a const that ends the line before; const int X = 3; on one line and
\* an indented declaration yield no record.  The type of every Constant record
\* stands at the start of a line of the file.
C28_TypeAtFirstColumn ==
    /\ Parsed("atColumn") =>
          IF TheSource.variant \in {"firstColumn", "constLineBefore"}
          THEN /\ ConstantRecords = {TheSource.decl}
               /\ outParseResults.ConstantsCount = 1
          ELSE /\ ConstantRecords = {}
               /\ outParseResults.ConstantsCount = 0
    /\ (ret = "true" /\ Ran("CreateNWScriptStructureA")) =>
          \A m \in ConstantRecords :
              \E p \in 1..Len(call.sFileContents) :
                  /\ LineStart(call.sFileContents, p)
                  /\ Lit(call.sFileContents, p, m.sType) # 0

\* const int X = 3; on one line was parsed and left no record.
C28_Witness ==
    /\ Parsed("atColumn")
    /\ TheSource.variant = "constSameLine"
    /\ Ran("CreateNWScriptStructureA")
    /\ outParseResults.Members = <<>>

\* The type begins with the letters of a control-flow keyword.
BeginsWithKeyword(type) ==
    \E k \in Keywords : Len(k) <= Len(type) /\ SubSeq(type, 1, Len(k)) = k

\* C29: the keyword exclusion is a test of how the return type begins: a
\* prototype whose return type begins with the letters return, if, else or
\* switch yields no Function record, whatever follows the letters; one whose
\* type has the letters further on yields its record.
C29_KeywordPrefixSkipped ==
    Parsed("likeKeyword") =>
        IF BeginsWithKeyword(TheSource.variant)
        THEN /\ FunctionRecords = {}
             /\ outParseResults.FunctionsCount = 0
        ELSE /\ FunctionRecords = {TheSource.decl}
             /\ outParseResults.FunctionsCount = 1

\* elsewhere F(); was parsed and left no record.
C29_Witness ==
    /\ Parsed("likeKeyword")
    /\ TheSource.variant = "elsewhere"
    /\ Ran("CreateNWScriptStructureA")
    /\ outParseResults.Members = <<>>

\* C30: the type and the name of a parameter record are the whole identifiers
\* of the declaration; const is dropped only as a word of its own, so the
\* parameter constant_t x has the type constant_t.
C30_ParamIdentifiersWhole ==
    Parsed("constWord") => FunctionRecords = {TheSource.decl}


-----------------------------------------------------------------------------
(* Properties of processFile and compileScript *)

\* The modelled file names that are nwscript.nss but for the case of their
\* letters.
ReservedNames == {Codes("nwscript.nss"), Codes("NWScript.NSS")}

\* The call is behind the safeguard.
BehindSafeguard == process.pc \notin {"idle", "reserved"}

\* C25: in compile mode processFile refuses a file named nwscript.nss,
\* whatever the case of the letters: it notifies the caller of the failure
\* and returns, and has not initialized the compiler, loaded the file or
\* called the compiler.  In disassemble mode a file of that name is not
\* refused.
C25_ReservedNameRefused ==
    (BehindSafeguard /\ filename(process.sourcePath) \in ReservedNames) =>
        IF process.compilerMode = 0
        THEN /\ process.pc = "returned"
             /\ process.notified = <<FALSE>>
             /\ "NSC2010" \in process.log
             /\ process.steps = <<>>
             /\ process.executed = NotExecuted
        ELSE /\ "NSC2010" \notin process.log
             /\ process.pc = "returned" => process.steps # <<>>

\* NWScript.NSS was refused in compile mode.
C25_Witness ==
    /\ process.pc = "returned"
    /\ filename(process.sourcePath) = Codes("NWScript.NSS")
    /\ process.compilerMode = 0
    /\ process.notified = <<FALSE>>

\* C26: compileScript writes files only when the compiler succeeded and
\* neither mode is set: on Failure or an unknown result it returns false, on
\* Include true, and with fetch-preprocessor-only or dependency-view set it
\* returns before the write step, in each case with no file written; the
\* debug symbols are written only when generateSymbols is set and the
\* compiled file has been written.
C26_WritesOnlyOnSuccess ==
    process.executed.step = "compileScript" =>
        /\ process.executed.in.result \in {"NscResult_Failure", "other"} =>
              ~process.executed.ret /\ process.executed.written = <<>>
        /\ process.executed.in.result = "NscResult_Include" =>
              process.executed.ret /\ process.executed.written = <<>>
        /\ (process.executed.in.fetchPreprocessorOnly
               \/ process.executed.in.makeDependencyView) =>
              process.executed.written = <<>>
        /\ "debugSymbolsFileSuffix" \in Range(process.executed.written) =>
              /\ process.executed.in.generateSymbols
              /\ process.executed.written[1] = "compiledScriptSuffix"
              /\ "compiledScriptSuffix" \notin process.executed.in.unwritable

\* The compiler succeeded with generateSymbols and fetch-preprocessor-only
\* set, and compileScript returned true with no file written.
C26_Witness ==
    /\ process.executed.step = "compileScript"
    /\ process.executed.in.result = "NscResult_Success"
    /\ process.executed.in.fetchPreprocessorOnly
    /\ process.executed.in.generateSymbols
    /\ process.executed.in.unwritable = {}
    /\ process.executed.ret
    /\ process.executed.written = <<>>

\* C27: a call of processFile that returns has called notifyCaller once: with
\* false, and without a compile or disassemble step, when it returns from the
\* safeguard, the initialization or the load, else with what compileScript
\* or disassembleBinary returned; and it calls it only as it returns.
C27_NotifiedOnce ==
    [][/\ process'.notified # <<>> => process'.pc = "returned"
       /\ (process'.pc = "returned" /\ process.pc # "returned") =>
             /\ Len(process'.notified) = 1
             /\ process.pc \in {"reserved", "initialize", "load"} =>
                   /\ process'.notified = <<FALSE>>
                   /\ process'.executed = NotExecuted
             /\ process.pc = "notify" =>
                   /\ process'.executed.step \in {"compileScript", "disassembleBinary"}
                   /\ process'.notified = <<process'.executed.ret>>]_vars

\* A call in compile mode initialized the compiler, loaded the file, compiled
\* it and told the caller of the success.
C27_Witness ==
    /\ process.pc = "returned"
    /\ process.steps = <<"initialize", "fileToBuffer", "compileScript">>
    /\ process.executed.ret
    /\ process.notified = <<TRUE>>

=============================================================================
